---- MODULE Spec2Model ----
(***************************************************************************)
(* Cluster routing core of redis-rs (redis/src/cluster_routing.rs): slot   *)
(* hashing, the command-to-routing decision table, the multi-key splitter  *)
(* and the ordered recombination of partial responses.                     *)
(*                                                                         *)
(* Byte strings are sequences of integers 0..255.  An Option<T> is the     *)
(* record None or Some(x).  A Routable is either the command builder       *)
(* ([shape |-> "Cmd", args |-> <<...>>]) or a decoded value                *)
(* ([shape |-> "Value", v |-> ...]).                                       *)
(***************************************************************************)
EXTENDS Integers, Sequences, FiniteSets, TLC

VARIABLES
    cmd,        \* the command builder handed to the router
    routing,    \* RoutingInfo::for_routable(&cmd), or Unset before the call
    other,      \* a second routable derived from cmd (decoded or re-cased)
    otherKind,  \* "none" | "packed" | "parsed" | "recased"
    routingO,   \* RoutingInfo::for_routable(&other), or Unset
    partials,   \* the per-route responses of a split command, or Unset
    combined,   \* combine_and_sort_array_results(partials, plan), or Unset
    policy,     \* RoutingInfo::response_policy(&cmd), or Unset before the call
    keyPair,    \* a pair of keys handed to get_hashtag and get_slot
    tagPair,    \* the pair of get_hashtag results, or Unset
    slotPair,   \* the pair of get_slot results, or Unset
    aggValues,  \* the partial responses handed to an aggregation function
    aggOrder,   \* the index lists at hand for them: None or Some(lists)
    aggregated, \* the call made on aggValues and what it returned, or Unset
    slot_map,   \* SlotMap: the BTreeMap from end boundary to SlotAddrs
    inserted,   \* for each end boundary, the Slot last inserted with it
    lastOp,     \* the last call that changed the map, with its end boundaries
    looked,     \* the last slot_addr_for_route call and its result, or Unset
    addresses   \* the last addresses_for_multi_routing call and result, or Unset

routerVars ==
    <<cmd, routing, other, otherKind, routingO, partials, combined, policy>>
hashVars == <<keyPair, tagPair, slotPair>>
aggVars == <<aggValues, aggOrder, aggregated>>
mapVars == <<slot_map, inserted, lastOp, looked, addresses>>
vars == <<routerVars, hashVars, aggVars, mapVars>>

None == [some |-> FALSE]
Some(x) == [some |-> TRUE, v |-> x]
Unset == [unset |-> TRUE]

----------------------------------------------------------------------------
(* Bytes *)

\* u8::to_ascii_uppercase on every byte: 'a'..'z' (97..122) lose 32.
to_ascii_uppercase(x) ==
    [i \in 1..Len(x) |-> IF x[i] >= 97 /\ x[i] <= 122 THEN x[i] - 32 ELSE x[i]]

\* [u8]::eq_ignore_ascii_case: same length and equal byte by byte once the
\* ASCII letters are folded to one case.
eq_ignore_ascii_case(d, candidate) ==
    to_ascii_uppercase(d) = to_ascii_uppercase(candidate)

RECURSIVE Xor(_, _, _)
\* Bitwise exclusive or of two n-bit naturals.
Xor(a, b, n) ==
    IF n = 0 THEN 0
    ELSE (((a % 2) + (b % 2)) % 2) + 2 * Xor(a \div 2, b \div 2, n - 1)

RECURSIVE CrcBits(_, _)
\* k rounds of the CRC-16/XMODEM shift register, polynomial 0x1021.
CrcBits(c, k) ==
    IF k = 0 THEN c
    ELSE CrcBits(IF c >= 32768 THEN Xor((c * 2) % 65536, 4129, 16)
                 ELSE (c * 2) % 65536, k - 1)

\* The byte table of CRC-16/XMODEM.
CrcTable == [b \in 0..255 |-> CrcBits(b * 256, 8)]

RECURSIVE Crc16(_, _, _)
\* crc16::State::<XMODEM>::calculate: initial value 0, one table step a byte.
Crc16(key, i, crc) ==
    IF i > Len(key) THEN crc
    ELSE Crc16(key, i + 1,
               Xor((crc * 256) % 65536,
                   CrcTable[Xor(crc \div 256, key[i], 8)], 16))

SLOT_SIZE == 16384

slot(key) == Crc16(key, 1, 0) % SLOT_SIZE

\* Iterator::position over bytes: the least 1-based index i >= from with
\* key[i] = b, or 0 when there is none.
RECURSIVE BytePosition(_, _, _)
BytePosition(key, b, from) ==
    IF from > Len(key) THEN 0
    ELSE IF key[from] = b THEN from
    ELSE BytePosition(key, b, from + 1)

RECURSIVE LastBytePosition(_, _, _)
\* The greatest 1-based index i >= from with key[i] = b, or 0.
LastBytePosition(key, b, from) ==
    IF from > Len(key) THEN 0
    ELSE LET later == LastBytePosition(key, b, from + 1) IN
         IF later # 0 THEN later ELSE IF key[from] = b THEN from ELSE 0

\* Mutant of get_hashtag: the tag runs up to the last '}' of the key.
get_hashtag_last_close(key) ==
    LET open == BytePosition(key, 123, 1) IN
    IF open = 0 THEN None
    ELSE LET close == LastBytePosition(key, 125, open) IN
         IF close = 0 THEN None
         ELSE LET rv == SubSeq(key, open + 1, close - 1) IN
              IF rv = <<>> THEN None ELSE Some(rv)

\* get_hashtag: the bytes between the first '{' (123) and the first '}' (125)
\* at or after it; None when either is missing or the bytes are empty.
get_hashtag(key) ==
    LET open == BytePosition(key, 123, 1) IN
    IF open = 0 THEN None
    ELSE LET close == BytePosition(key, 125, open) IN
         IF close = 0 THEN None
         ELSE LET rv == SubSeq(key, open + 1, close - 1) IN
              IF rv = <<>> THEN None ELSE Some(rv)

\* Mutant of get_slot: the whole key is hashed, whatever its hash-tag.
get_slot_whole_key(key) == slot(key)

get_slot(key) ==
    LET tag == get_hashtag(key) IN
    slot(IF tag.some THEN tag.v ELSE key)

Route(s, slot_addr) == [slot |-> s, slot_addr |-> slot_addr]

\* Mutant of get_route: the whole key is hashed, its hash-tag ignored.
get_route_whole_key(is_readonly, key) ==
    IF is_readonly THEN Route(slot(key), "Replica")
    ELSE Route(slot(key), "Master")

get_route(is_readonly, key) ==
    IF is_readonly THEN Route(get_slot(key), "Replica")
    ELSE Route(get_slot(key), "Master")

\* crate::commands::is_readonly_cmd: the names classified read-only.
ReadOnlyCmds ==
    { <<69, 88, 73, 83, 84, 83>>,                                  \* b"EXISTS"
      <<77, 71, 69, 84>>,                                          \* b"MGET"
      <<88, 73, 78, 70, 79, 32, 71, 82, 79, 85, 80, 83>>,          \* b"XINFO GROUPS"
      <<88, 82, 69, 65, 68>>,                                      \* b"XREAD"
      <<71, 69, 84>> }                                             \* b"GET"

is_readonly_cmd(name) == name \in ReadOnlyCmds

----------------------------------------------------------------------------
(* 64-bit integers *)

\* An i64 is its two's complement of 64 bits, as four limbs of 16 bits, the
\* least significant first.
LimbBase == 65536

I64_MAX == <<65535, 65535, 65535, 32767>>  \* i64::MAX, 0x7fff_ffff_ffff_ffff
I64_MIN == <<0, 0, 0, 32768>>              \* i64::MIN, 0x8000_0000_0000_0000
I64Zero == <<0, 0, 0, 0>>

\* The i64 of an integer n with -2^31 < n < 2^31.
I64FromInt(n) ==
    IF n >= 0
    THEN <<n % LimbBase, n \div LimbBase, 0, 0>>
    ELSE <<(LimbBase - 1) - ((-n - 1) % LimbBase),
           (LimbBase - 1) - ((-n - 1) \div LimbBase),
           LimbBase - 1, LimbBase - 1>>

\* The sign bit of a two's complement number of any number of limbs.
IsNegative(x) == x[Len(x)] >= LimbBase \div 2

RECURSIVE AddLimbs(_, _, _, _)
\* a + b modulo 2^(16 * Len(a)), from limb i on with the carry given.
AddLimbs(a, b, i, carry) ==
    IF i > Len(a) THEN <<>>
    ELSE <<(a[i] + b[i] + carry) % LimbBase>>
         \o AddLimbs(a, b, i + 1, (a[i] + b[i] + carry) \div LimbBase)

\* i64::wrapping_add
I64WrappingAdd(a, b) == AddLimbs(a, b, 1, 0)

\* The sum of a and b is no i64: the operands have one sign and the wrapped
\* sum has the other.
I64AddOverflows(a, b) ==
    /\ IsNegative(a) = IsNegative(b)
    /\ IsNegative(I64WrappingAdd(a, b)) # IsNegative(a)

RECURSIVE LimbsBelow(_, _, _)
\* a < b as unsigned numbers, compared from limb i down.
LimbsBelow(a, b, i) ==
    IF i = 0 THEN FALSE
    ELSE IF a[i] # b[i] THEN a[i] < b[i]
    ELSE LimbsBelow(a, b, i - 1)

\* a < b as signed numbers of one width.
I64Less(a, b) ==
    IF IsNegative(a) # IsNegative(b) THEN IsNegative(a)
    ELSE LimbsBelow(a, b, Len(a))

\* std::cmp::min
I64Min(a, b) == IF I64Less(b, a) THEN b ELSE a

----------------------------------------------------------------------------
(* Command name tables *)

\* Routable::command, lines 374-376: the verbs whose subcommand is part of the name.
ContainerVerbs ==
    { <<88, 71, 82, 79, 85, 80>>,  \* b"XGROUP"
      <<79, 66, 74, 69, 67, 84>>,  \* b"OBJECT"
      <<83, 76, 79, 87, 76, 79, 71>>,  \* b"SLOWLOG"
      <<70, 85, 78, 67, 84, 73, 79, 78>>,  \* b"FUNCTION"
      <<77, 79, 68, 85, 76, 69>>,  \* b"MODULE"
      <<67, 79, 77, 77, 65, 78, 68>>,  \* b"COMMAND"
      <<80, 85, 66, 83, 85, 66>>,  \* b"PUBSUB"
      <<67, 79, 78, 70, 73, 71>>,  \* b"CONFIG"
      <<77, 69, 77, 79, 82, 89>>,  \* b"MEMORY"
      <<88, 73, 78, 70, 79>>,  \* b"XINFO"
      <<67, 76, 73, 69, 78, 84>>,  \* b"CLIENT"
      <<65, 67, 76>>,  \* b"ACL"
      <<83, 67, 82, 73, 80, 84>>,  \* b"SCRIPT"
      <<67, 76, 85, 83, 84, 69, 82>>,  \* b"CLUSTER"
      <<76, 65, 84, 69, 78, 67, 89>> }  \* b"LATENCY"

\* for_routable, lines 296-315: the names routed to MultiNode(AllMasters).
AllMastersCmds ==
    { <<82, 65, 78, 68, 79, 77, 75, 69, 89>>,  \* b"RANDOMKEY"
      <<75, 69, 89, 83>>,  \* b"KEYS"
      <<83, 67, 82, 73, 80, 84, 32, 69, 88, 73, 83, 84, 83>>,  \* b"SCRIPT EXISTS"
      <<87, 65, 73, 84>>,  \* b"WAIT"
      <<68, 66, 83, 73, 90, 69>>,  \* b"DBSIZE"
      <<70, 76, 85, 83, 72, 65, 76, 76>>,  \* b"FLUSHALL"
      <<70, 85, 78, 67, 84, 73, 79, 78, 32, 82, 69, 83, 84, 79, 82, 69>>,  \* b"FUNCTION RESTORE"
      <<70, 85, 78, 67, 84, 73, 79, 78, 32, 68, 69, 76, 69, 84, 69>>,  \* b"FUNCTION DELETE"
      <<70, 85, 78, 67, 84, 73, 79, 78, 32, 70, 76, 85, 83, 72>>,  \* b"FUNCTION FLUSH"
      <<70, 85, 78, 67, 84, 73, 79, 78, 32, 76, 79, 65, 68>>,  \* b"FUNCTION LOAD"
      <<80, 73, 78, 71>>,  \* b"PING"
      <<70, 76, 85, 83, 72, 68, 66>>,  \* b"FLUSHDB"
      <<77, 69, 77, 79, 82, 89, 32, 80, 85, 82, 71, 69>>,  \* b"MEMORY PURGE"
      <<70, 85, 78, 67, 84, 73, 79, 78, 32, 75, 73, 76, 76>>,  \* b"FUNCTION KILL"
      <<83, 67, 82, 73, 80, 84, 32, 75, 73, 76, 76>>,  \* b"SCRIPT KILL"
      <<70, 85, 78, 67, 84, 73, 79, 78, 32, 83, 84, 65, 84, 83>>,  \* b"FUNCTION STATS"
      <<77, 69, 77, 79, 82, 89, 32, 77, 65, 76, 76, 79, 67, 45, 83, 84, 65, 84, 83>>,  \* b"MEMORY MALLOC-STATS"
      <<77, 69, 77, 79, 82, 89, 32, 68, 79, 67, 84, 79, 82>>,  \* b"MEMORY DOCTOR"
      <<77, 69, 77, 79, 82, 89, 32, 83, 84, 65, 84, 83>>,  \* b"MEMORY STATS"
      <<73, 78, 70, 79>> }  \* b"INFO"

\* for_routable, lines 317-321: the names routed to MultiNode(AllNodes).
AllNodesCmds ==
    { <<83, 76, 79, 87, 76, 79, 71, 32, 71, 69, 84>>,  \* b"SLOWLOG GET"
      <<83, 76, 79, 87, 76, 79, 71, 32, 76, 69, 78>>,  \* b"SLOWLOG LEN"
      <<83, 76, 79, 87, 76, 79, 71, 32, 82, 69, 83, 69, 84>>,  \* b"SLOWLOG RESET"
      <<67, 79, 78, 70, 73, 71, 32, 83, 69, 84>>,  \* b"CONFIG SET"
      <<83, 67, 82, 73, 80, 84, 32, 70, 76, 85, 83, 72>>,  \* b"SCRIPT FLUSH"
      <<83, 67, 82, 73, 80, 84, 32, 76, 79, 65, 68>>,  \* b"SCRIPT LOAD"
      <<76, 65, 84, 69, 78, 67, 89, 32, 82, 69, 83, 69, 84>>,  \* b"LATENCY RESET"
      <<76, 65, 84, 69, 78, 67, 89, 32, 71, 82, 65, 80, 72>>,  \* b"LATENCY GRAPH"
      <<76, 65, 84, 69, 78, 67, 89, 32, 72, 73, 83, 84, 79, 71, 82, 65, 77>>,  \* b"LATENCY HISTOGRAM"
      <<76, 65, 84, 69, 78, 67, 89, 32, 72, 73, 83, 84, 79, 82, 89>>,  \* b"LATENCY HISTORY"
      <<76, 65, 84, 69, 78, 67, 89, 32, 68, 79, 67, 84, 79, 82>>,  \* b"LATENCY DOCTOR"
      <<76, 65, 84, 69, 78, 67, 89, 32, 76, 65, 84, 69, 83, 84>> }  \* b"LATENCY LATEST"

\* for_routable, line 323: the multi-key commands split without values.
MultiKeyCmds ==
    { <<77, 71, 69, 84>>,  \* b"MGET"
      <<68, 69, 76>>,  \* b"DEL"
      <<69, 88, 73, 83, 84, 83>>,  \* b"EXISTS"
      <<85, 78, 76, 73, 78, 75>>,  \* b"UNLINK"
      <<84, 79, 85, 67, 72>> }  \* b"TOUCH"

\* Mutant of NoRouteCmds: MOVE is missing from the table.
NoRouteCmds_without_MOVE ==
    { <<83, 67, 65, 78>>,  \* b"SCAN"
      <<67, 76, 73, 69, 78, 84, 32, 83, 69, 84, 78, 65, 77, 69>>,  \* b"CLIENT SETNAME"
      <<83, 72, 85, 84, 68, 79, 87, 78>>,  \* b"SHUTDOWN"
      <<83, 76, 65, 86, 69, 79, 70>>,  \* b"SLAVEOF"
      <<82, 69, 80, 76, 73, 67, 65, 79, 70>>,  \* b"REPLICAOF"
      <<66, 73, 84, 79, 80>> }  \* b"BITOP"

\* for_routable, lines 326-327: the names that get no routing.
NoRouteCmds ==
    { <<83, 67, 65, 78>>,  \* b"SCAN"
      <<67, 76, 73, 69, 78, 84, 32, 83, 69, 84, 78, 65, 77, 69>>,  \* b"CLIENT SETNAME"
      <<83, 72, 85, 84, 68, 79, 87, 78>>,  \* b"SHUTDOWN"
      <<83, 76, 65, 86, 69, 79, 70>>,  \* b"SLAVEOF"
      <<82, 69, 80, 76, 73, 67, 65, 79, 70>>,  \* b"REPLICAOF"
      <<77, 79, 86, 69>>,  \* b"MOVE"
      <<66, 73, 84, 79, 80>> }  \* b"BITOP"

\* for_routable, line 328: the scripting commands.
EvalCmds ==
    { <<69, 86, 65, 76, 83, 72, 65>>,  \* b"EVALSHA"
      <<69, 86, 65, 76>> }  \* b"EVAL"

\* for_routable, lines 339-346: the names routed by argument 2.
StreamGroupCmds ==
    { <<88, 71, 82, 79, 85, 80, 32, 67, 82, 69, 65, 84, 69>>,  \* b"XGROUP CREATE"
      <<88, 71, 82, 79, 85, 80, 32, 67, 82, 69, 65, 84, 69, 67, 79, 78, 83, 85, 77, 69, 82>>,  \* b"XGROUP CREATECONSUMER"
      <<88, 71, 82, 79, 85, 80, 32, 68, 69, 76, 67, 79, 78, 83, 85, 77, 69, 82>>,  \* b"XGROUP DELCONSUMER"
      <<88, 71, 82, 79, 85, 80, 32, 68, 69, 83, 84, 82, 79, 89>>,  \* b"XGROUP DESTROY"
      <<88, 71, 82, 79, 85, 80, 32, 83, 69, 84, 73, 68>>,  \* b"XGROUP SETID"
      <<88, 73, 78, 70, 79, 32, 67, 79, 78, 83, 85, 77, 69, 82, 83>>,  \* b"XINFO CONSUMERS"
      <<88, 73, 78, 70, 79, 32, 71, 82, 79, 85, 80, 83>>,  \* b"XINFO GROUPS"
      <<88, 73, 78, 70, 79, 32, 83, 84, 82, 69, 65, 77>> }  \* b"XINFO STREAM"

\* for_routable, line 347: the stream read commands.
StreamReadCmds ==
    { <<88, 82, 69, 65, 68>>,  \* b"XREAD"
      <<88, 82, 69, 65, 68, 71, 82, 79, 85, 80>> }  \* b"XREADGROUP"

b_MSET == <<77, 83, 69, 84>>  \* b"MSET"
b_STREAMS == <<83, 84, 82, 69, 65, 77, 83>>  \* b"STREAMS"


----------------------------------------------------------------------------
(* Values and the two Routable shapes *)

ValueNil == [t |-> "Nil"]
ValueInt(n) == [t |-> "Int", int |-> n]
ValueData(d) == [t |-> "Data", data |-> d]
ValueBulk(items) == [t |-> "Bulk", items |-> items]

CmdShape(args) == [shape |-> "Cmd", args |-> args]
ValueShape(v) == [shape |-> "Value", v |-> v]

\* Cmd::arg_idx: the bytes of argument idx (0 is the verb) of the builder.
Cmd_arg_idx(r, idx) ==
    IF idx < Len(r.args) THEN Some(r.args[idx + 1]) ELSE None

\* Mutant of Value_arg_idx: the element after the one asked for is read.
Value_arg_idx_shifted(r, idx) ==
    IF r.v.t = "Bulk"
    THEN IF idx + 1 < Len(r.v.items) /\ r.v.items[idx + 2].t = "Data"
         THEN Some(r.v.items[idx + 2].data)
         ELSE None
    ELSE None

\* impl Routable for Value, arg_idx: only a Bulk whose element idx is Data
\* has an argument there.
Value_arg_idx(r, idx) ==
    IF r.v.t = "Bulk"
    THEN IF idx < Len(r.v.items) /\ r.v.items[idx + 1].t = "Data"
         THEN Some(r.v.items[idx + 1].data)
         ELSE None
    ELSE None

arg_idx(r, idx) ==
    IF r.shape = "Cmd" THEN Cmd_arg_idx(r, idx) ELSE Value_arg_idx(r, idx)

RECURSIVE FirstMatch(_, _)
\* Iterator::position: the 0-based index of the first TRUE of matches, from
\* the 1-based place i on; None when there is none.
FirstMatch(matches, i) ==
    IF i > Len(matches) THEN None
    ELSE IF matches[i] THEN Some(i - 1)
    ELSE FirstMatch(matches, i + 1)

\* impl Routable for Cmd, position: every argument of the builder modelled
\* here is an Arg::Simple.
Cmd_position(r, candidate) ==
    FirstMatch([i \in 1..Len(r.args) |->
                  eq_ignore_ascii_case(r.args[i], candidate)], 1)

\* impl Routable for Value, position.
Value_position(r, candidate) ==
    IF r.v.t = "Bulk"
    THEN FirstMatch([i \in 1..Len(r.v.items) |->
                       IF r.v.items[i].t = "Data"
                       THEN eq_ignore_ascii_case(r.v.items[i].data, candidate)
                       ELSE FALSE], 1)
    ELSE None

position(r, candidate) ==
    IF r.shape = "Cmd" THEN Cmd_position(r, candidate)
    ELSE Value_position(r, candidate)

\* Routable::command: the upper-cased verb, followed for a container verb by
\* a space (32) and the upper-cased argument 1 when there is one.
command(r) ==
    LET a0 == arg_idx(r, 0) IN
    IF ~a0.some THEN None
    ELSE LET primary_command == to_ascii_uppercase(a0.v) IN
         IF primary_command \notin ContainerVerbs THEN Some(primary_command)
         ELSE LET a1 == arg_idx(r, 1) IN
              IF a1.some
              THEN Some(primary_command \o <<32>> \o to_ascii_uppercase(a1.v))
              ELSE Some(primary_command)

----------------------------------------------------------------------------
(* RoutingInfo *)

Random == [t |-> "Random"]
SpecificNode(route) == [t |-> "SpecificNode", route |-> route]
SingleNode(info) == [t |-> "SingleNode", single |-> info]
AllNodes == [t |-> "AllNodes"]
AllMasters == [t |-> "AllMasters"]
MultiSlot(routes) == [t |-> "MultiSlot", routes |-> routes]
MultiNode(info) == [t |-> "MultiNode", multi |-> info]

\* Mutant of for_key: the command is taken for a read-only one.
for_key_replica(name, key) ==
    SingleNode(SpecificNode(get_route(TRUE, key)))

\* Mutant of for_key: the command is taken for a writing one.
for_key_master(name, key) ==
    SingleNode(SpecificNode(get_route(FALSE, key)))

\* RoutingInfo::for_key
for_key(name, key) ==
    SingleNode(SpecificNode(get_route(is_readonly_cmd(name), key)))

RECURSIVE MultiShardScan_truncate(_, _, _, _, _)
\* Mutant of MultiShardScan: a key without a value ends the scan and is
\* dropped, the pairs before it are kept.
MultiShardScan_truncate(r, is_readonly, has_values, routes, index) ==
    LET key == arg_idx(r, index) IN
    IF ~key.some THEN Some(routes)
    ELSE IF has_values /\ ~arg_idx(r, index + 1).some THEN Some(routes)
    ELSE LET route == get_route(is_readonly, key.v)
             keys == IF route \in DOMAIN routes THEN routes[route] ELSE <<>>
             pushed == IF has_values THEN <<index, index + 1>> ELSE <<index>>
         IN MultiShardScan_truncate(r, is_readonly, has_values,
                [x \in DOMAIN routes \cup {route} |->
                    IF x = route THEN keys \o pushed ELSE routes[x]],
                index + Len(pushed))

RECURSIVE MultiShardScan(_, _, _, _, _)
\* The while loop of multi_shard.  routes is the HashMap from Route to the
\* argument indices pushed under it; the result is None when the `?` on a
\* missing value leaves the function, and Some(routes) when the loop ends.
MultiShardScan(r, is_readonly, has_values, routes, index) ==
    LET key == arg_idx(r, index) IN
    IF ~key.some THEN Some(routes)
    ELSE LET route == get_route(is_readonly, key.v)
             keys == IF route \in DOMAIN routes THEN routes[route] ELSE <<>>
         IN IF has_values
            THEN IF ~arg_idx(r, index + 1).some THEN None
                 ELSE MultiShardScan(r, is_readonly, has_values,
                        [x \in DOMAIN routes \cup {route} |->
                            IF x = route THEN keys \o <<index, index + 1>>
                            ELSE routes[x]],
                        index + 2)
            ELSE MultiShardScan(r, is_readonly, has_values,
                        [x \in DOMAIN routes \cup {route} |->
                            IF x = route THEN keys \o <<index>>
                            ELSE routes[x]],
                        index + 1)

\* HashMap::into_iter().collect(): the entries of the map in an order the
\* hasher picks; every enumeration of the entries is a possible Vec.
IntoIterCollect(routes) ==
    LET n == Cardinality(DOMAIN routes) IN
    { [i \in 1..n |-> <<p[i], routes[p[i]]>>] :
        p \in { q \in [1..n -> DOMAIN routes] :
                  \A i, j \in 1..n : i # j => q[i] # q[j] } }

\* Mutant of multi_shard: a single route is not collapsed to SingleNode.
multi_shard_no_collapse(r, name, first_key_index, has_values) ==
    LET scan == MultiShardScan(r, is_readonly_cmd(name), has_values,
                               <<>>, first_key_index)
    IN IF ~scan.some THEN {None}
       ELSE { Some(MultiNode(MultiSlot(routes))) :
                routes \in IntoIterCollect(scan.v) }

\* multi_shard: the set of values the call may return (one for each order
\* the HashMap may be iterated in).
multi_shard(r, name, first_key_index, has_values) ==
    LET scan == MultiShardScan(r, is_readonly_cmd(name), has_values,
                               <<>>, first_key_index)
    IN IF ~scan.some THEN {None}
       ELSE { IF Len(routes) = 1
              THEN Some(SingleNode(SpecificNode(routes[1][1])))
              ELSE Some(MultiNode(MultiSlot(routes))) :
                routes \in IntoIterCollect(scan.v) }

RECURSIVE StripZeros(_)
\* The digits without their leading '0' (48) bytes.
StripZeros(x) ==
    IF x # <<>> /\ x[1] = 48 THEN StripZeros(Tail(x)) ELSE x

RECURSIVE LexLeq(_, _)
\* x <= y for two digit strings of one length.
LexLeq(x, y) ==
    IF x = <<>> THEN TRUE
    ELSE IF x[1] # y[1] THEN x[1] < y[1]
    ELSE LexLeq(Tail(x), Tail(y))

\* u64::MAX, 18446744073709551615, as its decimal digits.
U64_MAX ==
    <<49, 56, 52, 52, 54, 55, 52, 52, 48, 55, 51, 55, 48, 57, 53, 53, 49, 54,
      49, 53>>

\* Mutant of parse_u64: a string without digits counts as zero.
parse_u64_empty_is_zero(x) ==
    LET digits == IF x # <<>> /\ x[1] = 43 THEN Tail(x) ELSE x
        sig == StripZeros(digits)
    IN IF \E i \in 1..Len(digits) : digits[i] < 48 \/ digits[i] > 57
       THEN None
       ELSE IF Len(sig) > Len(U64_MAX) THEN None
       ELSE IF Len(sig) = Len(U64_MAX) /\ ~LexLeq(sig, U64_MAX) THEN None
       ELSE Some(sig)

\* std::str::from_utf8(x).ok().and_then(|x| x.parse::<u64>().ok()): an
\* optional '+' (43) followed by one or more digits '0'..'9' (48..57) whose
\* value is at most u64::MAX.  Any other byte, in valid UTF-8 or not, gives
\* None.  The u64 is kept as its decimal digits without leading zeros, so
\* that <<>> is 0 and no width is lost.
parse_u64(x) ==
    LET digits == IF x # <<>> /\ x[1] = 43 THEN Tail(x) ELSE x
        sig == StripZeros(digits)
    IN IF digits = <<>> \/ \E i \in 1..Len(digits) :
                               digits[i] < 48 \/ digits[i] > 57
       THEN None
       ELSE IF Len(sig) > Len(U64_MAX) THEN None
       ELSE IF Len(sig) = Len(U64_MAX) /\ ~LexLeq(sig, U64_MAX) THEN None
       ELSE Some(sig)

\* The u64 zero in the representation of parse_u64.
U64Zero == <<>>

\* RoutingInfo::for_routable: the set of values the call may return.
for_routable(r) ==
    LET c == command(r) IN
    IF ~c.some THEN {None}
    ELSE LET name == c.v IN
    CASE name \in AllMastersCmds -> {Some(MultiNode(AllMasters))}
      [] name \in AllNodesCmds -> {Some(MultiNode(AllNodes))}
      [] name \in MultiKeyCmds -> multi_shard(r, name, 1, FALSE)
      [] name = b_MSET -> multi_shard(r, name, 1, TRUE)
      [] name \in NoRouteCmds -> {None}
      [] name \in EvalCmds ->
            LET a2 == arg_idx(r, 2)
                key_count == IF a2.some THEN parse_u64(a2.v) ELSE None
            IN IF ~key_count.some THEN {None}
               ELSE IF key_count.v = U64Zero THEN {Some(SingleNode(Random))}
               ELSE LET key == arg_idx(r, 3) IN
                    IF key.some THEN {Some(for_key(name, key.v))} ELSE {None}
      [] name \in StreamGroupCmds ->
            LET key == arg_idx(r, 2) IN
            IF key.some THEN {Some(for_key(name, key.v))} ELSE {None}
      [] name \in StreamReadCmds ->
            LET streams_position == position(r, b_STREAMS) IN
            IF ~streams_position.some THEN {None}
            ELSE LET key == arg_idx(r, streams_position.v + 1) IN
                 IF key.some THEN {Some(for_key(name, key.v))} ELSE {None}
      [] OTHER ->
            LET key == arg_idx(r, 1) IN
            IF key.some THEN {Some(for_key(name, key.v))}
            ELSE {Some(SingleNode(Random))}

----------------------------------------------------------------------------
(* ResponsePolicy *)

OneSucceeded == [t |-> "OneSucceeded"]
OneSucceededNonEmpty == [t |-> "OneSucceededNonEmpty"]
AllSucceeded == [t |-> "AllSucceeded"]
AggregateLogical(op) == [t |-> "AggregateLogical", op |-> op]
AggregatePolicy(op) == [t |-> "Aggregate", op |-> op]
CombineArraysPolicy == [t |-> "CombineArrays"]
Special == [t |-> "Special"]

b_SCRIPT_EXISTS == <<83, 67, 82, 73, 80, 84, 32, 69, 88, 73, 83, 84, 83>>  \* b"SCRIPT EXISTS"
b_WAIT == <<87, 65, 73, 84>>  \* b"WAIT"
b_RANDOMKEY == <<82, 65, 78, 68, 79, 77, 75, 69, 89>>  \* b"RANDOMKEY"

\* response_policy, line 257: the names whose replies are summed.
SumCmds ==
    { <<68, 66, 83, 73, 90, 69>>,  \* b"DBSIZE"
      <<68, 69, 76>>,  \* b"DEL"
      <<69, 88, 73, 83, 84, 83>>,  \* b"EXISTS"
      <<83, 76, 79, 87, 76, 79, 71, 32, 76, 69, 78>>,  \* b"SLOWLOG LEN"
      <<84, 79, 85, 67, 72>>,  \* b"TOUCH"
      <<85, 78, 76, 73, 78, 75>> }  \* b"UNLINK"

\* response_policy, lines 263-265: the names that need every node to succeed.
AllSucceededCmds ==
    { <<67, 79, 78, 70, 73, 71, 32, 83, 69, 84>>,  \* b"CONFIG SET"
      <<70, 76, 85, 83, 72, 65, 76, 76>>,  \* b"FLUSHALL"
      <<70, 76, 85, 83, 72, 68, 66>>,  \* b"FLUSHDB"
      <<70, 85, 78, 67, 84, 73, 79, 78, 32, 68, 69, 76, 69, 84, 69>>,  \* b"FUNCTION DELETE"
      <<70, 85, 78, 67, 84, 73, 79, 78, 32, 70, 76, 85, 83, 72>>,  \* b"FUNCTION FLUSH"
      <<70, 85, 78, 67, 84, 73, 79, 78, 32, 76, 79, 65, 68>>,  \* b"FUNCTION LOAD"
      <<70, 85, 78, 67, 84, 73, 79, 78, 32, 82, 69, 83, 84, 79, 82, 69>>,  \* b"FUNCTION RESTORE"
      <<76, 65, 84, 69, 78, 67, 89, 32, 82, 69, 83, 69, 84>>,  \* b"LATENCY RESET"
      <<77, 69, 77, 79, 82, 89, 32, 80, 85, 82, 71, 69>>,  \* b"MEMORY PURGE"
      <<77, 83, 69, 84>>,  \* b"MSET"
      <<80, 73, 78, 71>>,  \* b"PING"
      <<83, 67, 82, 73, 80, 84, 32, 70, 76, 85, 83, 72>>,  \* b"SCRIPT FLUSH"
      <<83, 67, 82, 73, 80, 84, 32, 76, 79, 65, 68>>,  \* b"SCRIPT LOAD"
      <<83, 76, 79, 87, 76, 79, 71, 32, 82, 69, 83, 69, 84>> }  \* b"SLOWLOG RESET"

\* response_policy, line 269: the names whose reply arrays are joined.
CombineArraysCmds ==
    { <<75, 69, 89, 83>>,  \* b"KEYS"
      <<77, 71, 69, 84>>,  \* b"MGET"
      <<83, 76, 79, 87, 76, 79, 71, 32, 71, 69, 84>> }  \* b"SLOWLOG GET"

\* response_policy, line 271: the names that need one node to succeed.
OneSucceededCmds ==
    { <<70, 85, 78, 67, 84, 73, 79, 78, 32, 75, 73, 76, 76>>,  \* b"FUNCTION KILL"
      <<83, 67, 82, 73, 80, 84, 32, 75, 73, 76, 76>> }  \* b"SCRIPT KILL"

\* Mutant of SpecialCmds: INFO is missing from the table.
SpecialCmds_without_INFO ==
    { <<76, 65, 84, 69, 78, 67, 89, 32, 71, 82, 65, 80, 72>>,  \* b"LATENCY GRAPH"
      <<76, 65, 84, 69, 78, 67, 89, 32, 72, 73, 83, 84, 79, 71, 82, 65, 77>>,  \* b"LATENCY HISTOGRAM"
      <<76, 65, 84, 69, 78, 67, 89, 32, 72, 73, 83, 84, 79, 82, 89>>,  \* b"LATENCY HISTORY"
      <<76, 65, 84, 69, 78, 67, 89, 32, 68, 79, 67, 84, 79, 82>>,  \* b"LATENCY DOCTOR"
      <<76, 65, 84, 69, 78, 67, 89, 32, 76, 65, 84, 69, 83, 84>>,  \* b"LATENCY LATEST"
      <<70, 85, 78, 67, 84, 73, 79, 78, 32, 83, 84, 65, 84, 83>>,  \* b"FUNCTION STATS"
      <<77, 69, 77, 79, 82, 89, 32, 77, 65, 76, 76, 79, 67, 45, 83, 84, 65, 84, 83>>,  \* b"MEMORY MALLOC-STATS"
      <<77, 69, 77, 79, 82, 89, 32, 68, 79, 67, 84, 79, 82>>,  \* b"MEMORY DOCTOR"
      <<77, 69, 77, 79, 82, 89, 32, 83, 84, 65, 84, 83>> }  \* b"MEMORY STATS"

\* response_policy, lines 276-283: the names with a policy of their own.
SpecialCmds ==
    { <<76, 65, 84, 69, 78, 67, 89, 32, 71, 82, 65, 80, 72>>,  \* b"LATENCY GRAPH"
      <<76, 65, 84, 69, 78, 67, 89, 32, 72, 73, 83, 84, 79, 71, 82, 65, 77>>,  \* b"LATENCY HISTOGRAM"
      <<76, 65, 84, 69, 78, 67, 89, 32, 72, 73, 83, 84, 79, 82, 89>>,  \* b"LATENCY HISTORY"
      <<76, 65, 84, 69, 78, 67, 89, 32, 68, 79, 67, 84, 79, 82>>,  \* b"LATENCY DOCTOR"
      <<76, 65, 84, 69, 78, 67, 89, 32, 76, 65, 84, 69, 83, 84>>,  \* b"LATENCY LATEST"
      <<70, 85, 78, 67, 84, 73, 79, 78, 32, 83, 84, 65, 84, 83>>,  \* b"FUNCTION STATS"
      <<77, 69, 77, 79, 82, 89, 32, 77, 65, 76, 76, 79, 67, 45, 83, 84, 65, 84, 83>>,  \* b"MEMORY MALLOC-STATS"
      <<77, 69, 77, 79, 82, 89, 32, 68, 79, 67, 84, 79, 82>>,  \* b"MEMORY DOCTOR"
      <<77, 69, 77, 79, 82, 89, 32, 83, 84, 65, 84, 83>>,  \* b"MEMORY STATS"
      <<73, 78, 70, 79>> }  \* b"INFO"

\* RoutingInfo::response_policy
response_policy(r) ==
    LET c == command(r) IN
    IF ~c.some THEN None
    ELSE LET name == c.v IN
    CASE name = b_SCRIPT_EXISTS -> Some(AggregateLogical("And"))
      [] name \in SumCmds -> Some(AggregatePolicy("Sum"))
      [] name = b_WAIT -> Some(AggregatePolicy("Min"))
      [] name \in AllSucceededCmds -> Some(AllSucceeded)
      [] name \in CombineArraysCmds -> Some(CombineArraysPolicy)
      [] name \in OneSucceededCmds -> Some(OneSucceeded)
      [] name = b_RANDOMKEY -> Some(OneSucceededNonEmpty)
      [] name \in SpecialCmds -> Some(Special)
      [] OTHER -> None

----------------------------------------------------------------------------
(* The packed form of a command and its decoding *)

RECURSIVE Itoa(_)
\* The decimal digits of a natural number, as bytes.
Itoa(n) ==
    IF n < 10 THEN <<48 + n>> ELSE Itoa(n \div 10) \o <<48 + (n % 10)>>

CRLF == <<13, 10>>

RECURSIVE PackArgs(_, _)
PackArgs(args, i) ==
    IF i > Len(args) THEN <<>>
    ELSE <<36>> \o Itoa(Len(args[i])) \o CRLF \o args[i] \o CRLF
         \o PackArgs(args, i + 1)

\* Cmd::get_packed_command: '*' (42), the number of arguments, CRLF, then
\* every argument as a bulk string: '$' (36), its length, CRLF, its bytes,
\* CRLF.
get_packed_command(c) ==
    <<42>> \o Itoa(Len(c.args)) \o CRLF \o PackArgs(c.args, 1)

RECURSIVE ReadInt(_, _, _)
\* Reads decimal digits from place i up to a CRLF: [ok, n, next], next being
\* the place after the CRLF.
ReadInt(bytes, i, acc) ==
    IF i + 1 > Len(bytes) THEN [ok |-> FALSE, n |-> 0, next |-> i]
    ELSE IF bytes[i] = 13 /\ bytes[i + 1] = 10
         THEN [ok |-> TRUE, n |-> acc, next |-> i + 2]
    ELSE IF bytes[i] >= 48 /\ bytes[i] <= 57
         THEN ReadInt(bytes, i + 1, acc * 10 + (bytes[i] - 48))
    ELSE [ok |-> FALSE, n |-> 0, next |-> i]

ParseFail == [ok |-> FALSE, v |-> ValueNil, next |-> 0]

RECURSIVE ParseValue(_, _)
RECURSIVE ParseItems(_, _, _, _)
\* One value of the wire format at place i: [ok, v, next].
ParseValue(bytes, i) ==
    IF i > Len(bytes) THEN ParseFail
    ELSE IF bytes[i] = 42
         THEN LET n == ReadInt(bytes, i + 1, 0) IN
              IF ~n.ok \/ n.next = i + 3 THEN ParseFail
              ELSE ParseItems(bytes, n.next, n.n, <<>>)
    ELSE IF bytes[i] = 36
         THEN LET n == ReadInt(bytes, i + 1, 0) IN
              IF ~n.ok \/ n.next = i + 3 THEN ParseFail
              ELSE IF n.next + n.n + 1 > Len(bytes) THEN ParseFail
              ELSE IF SubSeq(bytes, n.next + n.n, n.next + n.n + 1) # CRLF
                   THEN ParseFail
              ELSE [ok |-> TRUE,
                    v |-> ValueData(SubSeq(bytes, n.next, n.next + n.n - 1)),
                    next |-> n.next + n.n + 2]
    ELSE IF bytes[i] = 58
         THEN LET n == ReadInt(bytes, i + 1, 0) IN
              IF ~n.ok \/ n.next = i + 3 THEN ParseFail
              ELSE [ok |-> TRUE, v |-> ValueInt(I64FromInt(n.n)),
                    next |-> n.next]
    ELSE ParseFail

\* The left elements of an array, after the items decoded so far.
ParseItems(bytes, i, left, items) ==
    IF left = 0 THEN [ok |-> TRUE, v |-> ValueBulk(items), next |-> i]
    ELSE LET item == ParseValue(bytes, i) IN
         IF ~item.ok THEN ParseFail
         ELSE ParseItems(bytes, item.next, left - 1, Append(items, item.v))

\* parser::parse_redis_value(bytes).unwrap(): the value the bytes encode;
\* ValueNil stands for bytes that hold no single complete value.
parse_redis_value(bytes) ==
    LET r == ParseValue(bytes, 1) IN
    IF r.ok /\ r.next = Len(bytes) + 1 THEN r.v ELSE ValueNil

----------------------------------------------------------------------------
(* Ordered recombination *)

Ok(v) == [t |-> "Ok", v |-> v]
ErrTypeError == [t |-> "Err", kind |-> "TypeError"]
Panic == [t |-> "Panic"]

RECURSIVE ScatterRoute(_, _, _, _)
\* The inner loop of combine_and_sort_array_results: element j of one partial
\* goes to results[index - 1]; an index outside results panics.  The result
\* is Some(the new results), or None for the panic.
ScatterRoute(results, key_indices, values, j) ==
    IF j > Len(key_indices) THEN Some(results)
    ELSE LET index == key_indices[j] IN
         IF index - 1 < 0 \/ index - 1 >= Len(results) THEN None
         ELSE ScatterRoute([results EXCEPT ![index] = values[j]],
                           key_indices, values, j + 1)

RECURSIVE ScatterAll(_, _, _, _)
\* The outer loop over zip(sorting_order, values).
ScatterAll(results, sorting_order, values, i) ==
    IF i > Len(values) THEN Ok(ValueBulk(results))
    ELSE IF values[i].t # "Bulk" THEN ErrTypeError
    ELSE IF Len(values[i].items) # Len(sorting_order[i]) THEN Panic
    ELSE LET next == ScatterRoute(results, sorting_order[i],
                                  values[i].items, 1)
         IN IF ~next.some THEN Panic
            ELSE ScatterAll(next.v, sorting_order, values, i + 1)

\* combine_and_sort_array_results: Ok(Bulk), Err(TypeError), or a panic (a
\* failed assert_eq! or an index out of bounds).
combine_and_sort_array_results(values, sorting_order) ==
    LET results == [k \in 1..Len(values) |-> ValueNil]  \* resize
    IN IF Len(values) # Len(sorting_order) THEN Panic
       ELSE ScatterAll(results, sorting_order, values, 1)

----------------------------------------------------------------------------
(* Aggregation of partial responses *)

RECURSIVE AggregateFold(_, _, _, _, _)
\* The fold of aggregate from place i on, acc being the i64 folded so far.
\* `acc + int` that overflows panics in a build with overflow checks and
\* wraps in a build without them.
AggregateFold(values, op, overflow_checks, i, acc) ==
    IF i > Len(values) THEN Ok(ValueInt(acc))
    ELSE IF values[i].t # "Int" THEN ErrTypeError
    ELSE IF op = "Min"
         THEN AggregateFold(values, op, overflow_checks, i + 1,
                            I64Min(acc, values[i].int))
    ELSE IF overflow_checks /\ I64AddOverflows(acc, values[i].int) THEN Panic
    ELSE AggregateFold(values, op, overflow_checks, i + 1,
                       I64WrappingAdd(acc, values[i].int))

\* aggregate, in a build with or without overflow checks.
aggregate(values, op, overflow_checks) ==
    AggregateFold(values, op, overflow_checks, 1,
                  IF op = "Min" THEN I64_MAX ELSE I64Zero)

RECURSIVE LogicalInner_nonzero(_, _, _)
\* Mutant of LogicalInner: an element counts as true when it is not zero.
LogicalInner_nonzero(items, j, acc) ==
    IF j > Len(items) THEN [t |-> "Acc", acc |-> acc]
    ELSE IF items[j].t # "Int" THEN ErrTypeError
    ELSE IF j > Len(acc) THEN Panic
    ELSE LogicalInner_nonzero(items, j + 1,
                      [acc EXCEPT ![j] = acc[j] /\ items[j].int # I64Zero])

RECURSIVE LogicalInner(_, _, _)
\* The for loop of logical_aggregate over one partial: the new acc, a
\* TypeError for an element that is no Int, or the panic of acc[index] with
\* index outside acc.
LogicalInner(items, j, acc) ==
    IF j > Len(items) THEN [t |-> "Acc", acc |-> acc]
    ELSE IF items[j].t # "Int" THEN ErrTypeError
    ELSE IF j > Len(acc) THEN Panic
    ELSE LogicalInner(items, j + 1,
                      [acc EXCEPT ![j] = acc[j] /\ I64Less(I64Zero, items[j].int)])

RECURSIVE LogicalFold(_, _, _)
\* The fold of logical_aggregate from place i on; an empty acc is taken for
\* the one of the first partial and is set to all true.
LogicalFold(values, i, acc) ==
    IF i > Len(values)
    THEN Ok(ValueBulk([j \in 1..Len(acc) |->
                         ValueInt(I64FromInt(IF acc[j] THEN 1 ELSE 0))]))
    ELSE IF values[i].t # "Bulk" THEN ErrTypeError
    ELSE LET start == IF acc = <<>>
                      THEN [j \in 1..Len(values[i].items) |-> TRUE]
                      ELSE acc
             next == LogicalInner(values[i].items, 1, start)
         IN IF next.t = "Acc" THEN LogicalFold(values, i + 1, next.acc)
            ELSE next

\* logical_aggregate, LogicalAggregateOp::And
logical_aggregate(values) == LogicalFold(values, 1, <<>>)

RECURSIVE combine_array_results(_)
\* combine_array_results: the partial arrays one after another.
combine_array_results(values) ==
    IF values = <<>> THEN Ok(ValueBulk(<<>>))
    ELSE IF values[1].t # "Bulk" THEN ErrTypeError
    ELSE LET rest == combine_array_results(Tail(values)) IN
         IF rest.t # "Ok" THEN rest
         ELSE Ok(ValueBulk(values[1].items \o rest.v.items))

----------------------------------------------------------------------------
(* The commands presented to the router *)

a_foo == <<102, 111, 111>>                            \* b"foo"
a_baz == <<98, 97, 122>>                              \* b"baz"
a_bar_vaz == <<123, 98, 97, 114, 125, 118, 97, 122>>  \* b"{bar}vaz"
a_a_bar == <<97, 123, 98, 97, 114, 125>>              \* b"a{bar}"
a_v == <<118>>                                        \* b"v"
a_script == <<115>>                                   \* b"s"
a_mystream == <<109, 121, 115, 116, 114, 101, 97, 109>>  \* b"mystream"
a_wkrs == <<119, 107, 114, 115>>                      \* b"wkrs"
a_streams == <<115, 116, 114, 101, 97, 109, 115>>     \* b"streams"
a_id == <<48, 45, 48>>                                \* b"0-0"
a_empty == <<>>                                       \* b""
a_0 == <<48>>                                         \* b"0"
a_00 == <<48, 48>>                                    \* b"00"
a_plus0 == <<43, 48>>                                 \* b"+0"
a_1 == <<49>>                                         \* b"1"
a_2 == <<50>>                                         \* b"2"
a_01 == <<48, 49>>                                    \* b"01"
a_minus1 == <<45, 49>>                                \* b"-1"
a_x == <<120>>                                        \* b"x"
a_1x == <<49, 120>>                                   \* b"1x"
a_COUNT == <<67, 79, 85, 78, 84>>                     \* b"COUNT"
a_BLOCK == <<66, 76, 79, 67, 75>>                     \* b"BLOCK"
a_GROUP == <<71, 82, 79, 85, 80>>                     \* b"GROUP"
a_DEL == <<68, 69, 76>>                               \* b"DEL"
a_EXISTS == <<69, 88, 73, 83, 84, 83>>                \* b"EXISTS"
a_UNLINK == <<85, 78, 76, 73, 78, 75>>                \* b"UNLINK"
a_TOUCH == <<84, 79, 85, 67, 72>>                     \* b"TOUCH"
a_MGET == <<77, 71, 69, 84>>                          \* b"MGET"
a_EVAL == <<69, 86, 65, 76>>                          \* b"EVAL"
a_EVALSHA == <<69, 86, 65, 76, 83, 72, 65>>           \* b"EVALSHA"
a_XREAD == <<88, 82, 69, 65, 68>>                     \* b"XREAD"
a_XREADGROUP == <<88, 82, 69, 65, 68, 71, 82, 79, 85, 80>>  \* b"XREADGROUP"
a_SCAN == <<83, 67, 65, 78>>                          \* b"SCAN"
a_SHUTDOWN == <<83, 72, 85, 84, 68, 79, 87, 78>>      \* b"SHUTDOWN"
a_SLAVEOF == <<83, 76, 65, 86, 69, 79, 70>>           \* b"SLAVEOF"
a_REPLICAOF == <<82, 69, 80, 76, 73, 67, 65, 79, 70>>  \* b"REPLICAOF"
a_MOVE == <<77, 79, 86, 69>>                          \* b"MOVE"
a_BITOP == <<66, 73, 84, 79, 80>>                     \* b"BITOP"
a_CLIENT == <<67, 76, 73, 69, 78, 84>>                \* b"CLIENT"
a_SETNAME == <<83, 69, 84, 78, 65, 77, 69>>           \* b"SETNAME"
a_CLIENT_SETNAME == <<67, 76, 73, 69, 78, 84, 32, 83, 69, 84, 78, 65, 77, 69>>  \* b"CLIENT SETNAME"
a_FLUSHALL == <<70, 76, 85, 83, 72, 65, 76, 76>>      \* b"FLUSHALL"
a_PING == <<80, 73, 78, 71>>                          \* b"PING"
a_ECHO == <<69, 67, 72, 79>>                          \* b"ECHO"
a_SET == <<83, 69, 84>>                               \* b"SET"
a_GET == <<71, 69, 84>>                               \* b"GET"
a_CONFIG == <<67, 79, 78, 70, 73, 71>>                \* b"CONFIG"
a_OBJECT == <<79, 66, 74, 69, 67, 84>>                \* b"OBJECT"
a_XINFO == <<88, 73, 78, 70, 79>>                     \* b"XINFO"
a_XGROUP == <<88, 71, 82, 79, 85, 80>>                \* b"XGROUP"
a_SCRIPT == <<83, 67, 82, 73, 80, 84>>                \* b"SCRIPT"
a_GROUPS == <<71, 82, 79, 85, 80, 83>>                \* b"GROUPS"
a_CREATE == <<67, 82, 69, 65, 84, 69>>                \* b"CREATE"
a_KILL == <<75, 73, 76, 76>>                          \* b"KILL"
a_ENCODING == <<69, 78, 67, 79, 68, 73, 78, 71>>      \* b"ENCODING"
a_xff == <<255>>                                      \* a byte that is no UTF-8

\* The longest key list of a multi-key command, and the most key/value pairs
\* of an MSET.
MaxKeys == 3
MaxPairs == 2

SeqsUpTo(S, n) == UNION { [1..k -> S] : k \in 0..n }

\* foo, baz and the tag bar: three slots, two keys sharing one hash-tag.
KeyPool == {a_foo, a_baz, a_bar_vaz, a_a_bar}

MultiKeyVerbs == {a_MGET, a_DEL, a_EXISTS, a_UNLINK, a_TOUCH}

MultiKeyInputs ==
    { <<verb>> \o keys : verb \in MultiKeyVerbs,
                         keys \in SeqsUpTo(KeyPool, MaxKeys) }

\* key1 v key2 v ...
WithValues(keys) ==
    [i \in 1..(2 * Len(keys)) |-> IF i % 2 = 1 THEN keys[(i + 1) \div 2]
                                  ELSE a_v]

\* MSET with complete pairs, and with one more key that has no value.
MsetInputs ==
    { <<b_MSET>> \o WithValues(keys) \o dangling :
        keys \in SeqsUpTo(KeyPool, MaxPairs),
        dangling \in {<<>>} \cup { <<k>> : k \in KeyPool } }

KeyCountPool ==
    {a_0, a_00, a_plus0, a_1, a_2, a_01, a_minus1, a_empty, a_x, a_1x, a_xff}

\* EVAL / EVALSHA: the verb alone, with the script only, and with a key-count
\* argument followed by up to two more arguments.
EvalInputs ==
    { <<verb>> \o rest :
        verb \in {a_EVAL, a_EVALSHA},
        rest \in {<<>>, <<a_script>>}
                 \cup { <<a_script, count>> \o keys :
                          count \in KeyCountPool,
                          keys \in SeqsUpTo({a_foo, a_baz}, 2) } }

StreamOptions ==
    {<<>>, <<a_COUNT, a_2>>, <<a_BLOCK, a_0>>,
     <<a_COUNT, a_2, a_BLOCK, a_0>>}

\* The stream-name list with its ids, behind the STREAMS keyword.
StreamLists ==
    { <<b_STREAMS, k, a_id>> : k \in {a_mystream, a_foo} }
    \cup { <<b_STREAMS, k1, k2, a_id, a_id>> : k1, k2 \in {a_mystream, a_foo} }

\* Group and consumer names; a group or a consumer may be called "streams".
NamePool == {a_wkrs, a_streams}

XReadInputs ==
    { <<a_XREAD>> \o opts \o list :
        opts \in StreamOptions, list \in StreamLists \cup {<<>>, <<b_STREAMS>>} }

XReadGroupInputs ==
    { <<a_XREADGROUP, a_GROUP, g, c>> \o opts \o list :
        g \in NamePool, c \in NamePool, opts \in StreamOptions,
        list \in StreamLists \cup {<<>>, <<b_STREAMS>>} }

\* The commands without routing, each with up to two arguments.
NoRouteInputs ==
    { verb \o args :
        verb \in { <<a_SCAN>>, <<a_SHUTDOWN>>, <<a_SLAVEOF>>, <<a_REPLICAOF>>,
                   <<a_MOVE>>, <<a_BITOP>>, <<a_CLIENT, a_SETNAME>>,
                   <<a_CLIENT_SETNAME>> },
        args \in SeqsUpTo({a_foo, a_0}, 2) }

\* Other commands: table entries, key commands, container verbs with and
\* without a subcommand, and the empty command.
OtherInputs ==
    { <<verb>> \o args :
        verb \in {a_FLUSHALL, a_PING, a_ECHO, a_SET, a_GET},
        args \in SeqsUpTo({a_foo, a_empty}, 2) }
    \cup { verb \o args :
        verb \in { <<a_CONFIG, a_GET>>, <<a_CONFIG, a_SET>>,
                   <<a_OBJECT, a_ENCODING>>, <<a_XINFO, a_GROUPS>>,
                   <<a_XGROUP, a_CREATE>>, <<a_SCRIPT, a_KILL>>,
                   <<a_CLIENT, a_KILL>> },
        args \in {<<>>, <<a_foo>>, <<a_mystream, a_wkrs>>} }
    \cup { <<verb>> : verb \in {a_CONFIG, a_OBJECT, a_XINFO, a_XGROUP,
                                a_SCRIPT, a_CLIENT} }
    \cup {<<>>}

Inputs ==
    MultiKeyInputs \cup MsetInputs \cup EvalInputs \cup XReadInputs
    \cup XReadGroupInputs \cup NoRouteInputs \cup OtherInputs

----------------------------------------------------------------------------
(* Case changes of the verb, the subcommand and the STREAMS keyword *)

to_ascii_lowercase(x) ==
    [i \in 1..Len(x) |-> IF x[i] >= 65 /\ x[i] <= 90 THEN x[i] + 32 ELSE x[i]]

\* Upper case at the odd places, lower case at the even ones ("StReAmS").
AlternateCase(x) ==
    [i \in 1..Len(x) |-> IF i % 2 = 1 THEN to_ascii_uppercase(x)[i]
                         ELSE to_ascii_lowercase(x)[i]]

ChangeCase(mode, x) ==
    IF mode = "lower" THEN to_ascii_lowercase(x) ELSE AlternateCase(x)

\* The 0-based places of the arguments whose letter case is not significant:
\* the verb, the subcommand of a container verb, and the STREAMS keyword that
\* a stream read command is searched for.
CaseFreePlaces(c) ==
    IF Len(c.args) = 0 THEN {}
    ELSE {0}
         \cup (IF to_ascii_uppercase(c.args[1]) \in ContainerVerbs
                  /\ Len(c.args) >= 2 THEN {1} ELSE {})
         \cup (IF to_ascii_uppercase(c.args[1]) \in StreamReadCmds
                  /\ position(c, b_STREAMS).some
               THEN {position(c, b_STREAMS).v} ELSE {})

Recased(c, places, mode) ==
    CmdShape([i \in 1..Len(c.args) |->
                IF (i - 1) \in places THEN ChangeCase(mode, c.args[i])
                ELSE c.args[i]])

----------------------------------------------------------------------------
(* The state machine: a command is built, routed, optionally decoded from   *)
(* its packed form or re-cased and routed again, and a split command has    *)
(* its partial responses recombined.                                        *)

\* The parts of the state a specification does not use stay as they are here.
RouterIdle ==
    /\ cmd = Unset /\ routing = Unset /\ other = Unset /\ otherKind = "none"
    /\ routingO = Unset /\ partials = Unset /\ combined = Unset
    /\ policy = Unset
HashIdle == keyPair = Unset /\ tagPair = Unset /\ slotPair = Unset
AggIdle == aggValues = Unset /\ aggOrder = Unset /\ aggregated = Unset
MapIdle ==
    /\ slot_map = Unset /\ inserted = Unset /\ lastOp = Unset
    /\ looked = Unset /\ addresses = Unset

Init ==
    /\ cmd \in { CmdShape(args) : args \in Inputs }
    /\ routing = Unset
    /\ other = Unset
    /\ otherKind = "none"
    /\ routingO = Unset
    /\ partials = Unset
    /\ combined = Unset
    /\ policy = Unset
    /\ HashIdle /\ AggIdle /\ MapIdle

\* RoutingInfo::for_routable(&cmd)
RouteCmd ==
    /\ routing = Unset
    /\ \E o \in for_routable(cmd) : routing' = o
    /\ UNCHANGED <<cmd, other, otherKind, routingO, partials, combined, policy>>
    /\ UNCHANGED <<hashVars, aggVars, mapVars>>

\* cmd.get_packed_command()
Pack ==
    /\ routing # Unset
    /\ otherKind = "none"
    /\ partials = Unset
    /\ other' = get_packed_command(cmd)
    /\ otherKind' = "packed"
    /\ UNCHANGED <<cmd, routing, routingO, partials, combined, policy>>
    /\ UNCHANGED <<hashVars, aggVars, mapVars>>

\* parse_redis_value(&packed).unwrap()
Parse ==
    /\ otherKind = "packed"
    /\ other' = ValueShape(parse_redis_value(other))
    /\ otherKind' = "parsed"
    /\ UNCHANGED <<cmd, routing, routingO, partials, combined, policy>>
    /\ UNCHANGED <<hashVars, aggVars, mapVars>>

\* The same command built with other letter case.
Recase ==
    /\ routing # Unset
    /\ otherKind = "none"
    /\ partials = Unset
    /\ \E places \in SUBSET CaseFreePlaces(cmd), mode \in {"lower", "alternate"} :
          /\ places # {}
          /\ other' = Recased(cmd, places, mode)
    /\ otherKind' = "recased"
    /\ UNCHANGED <<cmd, routing, routingO, partials, combined, policy>>
    /\ UNCHANGED <<hashVars, aggVars, mapVars>>

\* RoutingInfo::for_routable(&other)
RouteOther ==
    /\ otherKind \in {"parsed", "recased"}
    /\ routingO = Unset
    /\ \E o \in for_routable(other) : routingO' = o
    /\ UNCHANGED <<cmd, routing, other, otherKind, partials, combined, policy>>
    /\ UNCHANGED <<hashVars, aggVars, mapVars>>

IsMultiSlot(o) ==
    o # Unset /\ o.some /\ o.v.t = "MultiNode" /\ o.v.multi.t = "MultiSlot"

\* The reply of a node to the sub-command of one route: one element for each
\* argument index of the route, the element for a key being the key's bytes.
SubCommandReply(c, indices) ==
    ValueBulk([j \in 1..Len(indices) |-> ValueData(c.args[indices[j] + 1])])

\* The sub-commands of a split MGET are executed, one per route, and their
\* replies collected in the order of the plan.
ExecuteSubCommands ==
    /\ IsMultiSlot(routing)
    /\ command(cmd).v = a_MGET
    /\ otherKind = "none"
    /\ partials = Unset
    /\ partials' = Some([i \in 1..Len(routing.v.multi.routes) |->
                           SubCommandReply(cmd, routing.v.multi.routes[i][2])])
    /\ UNCHANGED <<cmd, routing, other, otherKind, routingO, combined, policy>>
    /\ UNCHANGED <<hashVars, aggVars, mapVars>>

\* combine_and_sort_array_results(partials, the plan's index lists)
Combine ==
    /\ partials # Unset
    /\ combined = Unset
    /\ combined' = combine_and_sort_array_results(
                      partials.v,
                      [i \in 1..Len(routing.v.multi.routes) |->
                          routing.v.multi.routes[i][2]])
    /\ UNCHANGED <<cmd, routing, other, otherKind, routingO, partials, policy>>
    /\ UNCHANGED <<hashVars, aggVars, mapVars>>

Next ==
    \/ RouteCmd
    \/ Pack
    \/ Parse
    \/ Recase
    \/ RouteOther
    \/ ExecuteSubCommands
    \/ Combine

Spec == Init /\ [][Next]_vars

----------------------------------------------------------------------------
(* Vocabulary of the properties *)

Routed == routing # Unset

\* The verb of the command as built (the commands built have upper-case verbs).
IsMultiKey(c) == Len(c.args) >= 1 /\ c.args[1] \in MultiKeyVerbs
IsMset(c) == Len(c.args) >= 1 /\ c.args[1] = b_MSET

\* The 0-based argument indices of the keys: every argument after the verb,
\* and every other one for MSET.
KeyIndices(c) ==
    IF IsMset(c) THEN { i \in 1..(Len(c.args) - 1) : i % 2 = 1 }
    ELSE 1..(Len(c.args) - 1)

\* The MSET keys that are followed by a value, and the indices of the values.
PairedKeyIndices(c) == { i \in KeyIndices(c) : i + 1 <= Len(c.args) - 1 }
ValueIndices(c) == { i + 1 : i \in PairedKeyIndices(c) }
HasDanglingKey(c) == IsMset(c) /\ (Len(c.args) - 1) % 2 = 1

KeyAt(c, i) == c.args[i + 1]
KeySlots(c) == { get_slot(KeyAt(c, i)) : i \in KeyIndices(c) }

\* Master for a write command, Replica for a read-only one.
RoleOf(c) == IF is_readonly_cmd(command(c).v) THEN "Replica" ELSE "Master"

Plan(o) == o.v.multi.routes

NoRouteRepeated(plan) ==
    \A i, j \in 1..Len(plan) : i # j => plan[i][1] # plan[j][1]

Ascending(list) ==
    \A a, b \in 1..Len(list) : a < b => list[a] < list[b]

\* The places <<i, j>> of the plan that hold the argument index k.
PlacesOf(plan, k) ==
    { <<i, j>> \in (1..Len(plan)) \X (1..(2 * MaxKeys + 2 * MaxPairs + 2)) :
        j <= Len(plan[i][2]) /\ plan[i][2][j] = k }

\* Index k is listed exactly once, under the route of its key's slot.
ListedOnceUnderItsRoute(c, plan, k) ==
    /\ Cardinality(PlacesOf(plan, k)) = 1
    /\ \A pl \in PlacesOf(plan, k) :
          plan[pl[1]][1] = Route(get_slot(KeyAt(c, k)), RoleOf(c))

ListsHoldOnly(plan, indices) ==
    \A i \in 1..Len(plan) : \A j \in 1..Len(plan[i][2]) :
        plan[i][2][j] \in indices

\* A split plan compared as a map from route to index list: the same entries,
\* whatever the order of the routes.
SameRouting(a, b) ==
    IF IsMultiSlot(a) /\ IsMultiSlot(b)
    THEN /\ Len(Plan(a)) = Len(Plan(b))
         /\ { Plan(a)[i] : i \in 1..Len(Plan(a)) }
              = { Plan(b)[i] : i \in 1..Len(Plan(b)) }
    ELSE a = b

----------------------------------------------------------------------------
(* C1 *)

\* C1: Ordered recombination round-trip.  When the keys of a multi-key
\* command (MGET) are split over two or more routes, combining the per-route partial
\* arrays with the plan's index lists returns an array with one element per
\* key, the element of the key at argument index i at result position i - 1.
C1_OrderedRecombination ==
    (combined # Unset /\ Len(Plan(routing)) >= 2)
    => combined = Ok(ValueBulk([p \in 1..(Len(cmd.args) - 1) |->
                                  ValueData(KeyAt(cmd, p))]))

----------------------------------------------------------------------------
(* C2 *)

\* The part common to the claim and its amended form: N routes, none
\* repeated, every key index listed once under its slot's route, every list
\* ascending.
SplitPlanOverKeys(c, o) ==
    /\ IsMultiSlot(o)
    /\ Len(Plan(o)) = Cardinality(KeySlots(c))
    /\ NoRouteRepeated(Plan(o))
    /\ \A k \in KeyIndices(c) : ListedOnceUnderItsRoute(c, Plan(o), k)
    /\ \A i \in 1..Len(Plan(o)) : Ascending(Plan(o)[i][2])

\* C2 as stated: for DEL/EXISTS/UNLINK/TOUCH/MGET and MSET, keys in N >= 2
\* slots give MultiSlot with exactly N routes, none repeated, whose index
\* lists partition the key argument indices, each list ascending.
C2_Original ==
    (Routed /\ (IsMultiKey(cmd) \/ IsMset(cmd))
       /\ Cardinality(KeySlots(cmd)) >= 2)
    => /\ SplitPlanOverKeys(cmd, routing)
       /\ ListsHoldOnly(Plan(routing), KeyIndices(cmd))

\* C2 amended: as stated for DEL/EXISTS/UNLINK/TOUCH/MGET.  For MSET whose
\* every key has a value the plan has N routes, none repeated, and the lists
\* partition the key and value indices: every key index is listed once under
\* its slot's route, immediately followed by the index of its value, each
\* list ascending.  For MSET whose last key has no value the result is None.
C2_SplitPlan ==
    (Routed /\ (IsMultiKey(cmd) \/ IsMset(cmd))
       /\ Cardinality(KeySlots(cmd)) >= 2)
    => IF IsMultiKey(cmd)
       THEN /\ SplitPlanOverKeys(cmd, routing)
            /\ ListsHoldOnly(Plan(routing), KeyIndices(cmd))
       ELSE IF HasDanglingKey(cmd) THEN routing = None
       ELSE /\ SplitPlanOverKeys(cmd, routing)
            /\ ListsHoldOnly(Plan(routing),
                             KeyIndices(cmd) \cup ValueIndices(cmd))
            /\ \A k \in KeyIndices(cmd) : \A pl \in PlacesOf(Plan(routing), k) :
                  /\ pl[2] + 1 <= Len(Plan(routing)[pl[1]][2])
                  /\ Plan(routing)[pl[1]][2][pl[2] + 1] = k + 1

\* A split with a route that owns two keys, and a split MSET.
C2_Witness ==
    /\ IsMultiKey(cmd)
    /\ IsMultiSlot(routing)
    /\ Len(Plan(routing)) = 2
    /\ \E i \in 1..2 : Len(Plan(routing)[i][2]) = 2

----------------------------------------------------------------------------
(* C3 *)

\* Every key of the command carries the hash-tag tag.
AllKeysTagged(c, tag) ==
    /\ KeyIndices(c) # {}
    /\ \A i \in KeyIndices(c) : get_hashtag(KeyAt(c, i)) = Some(tag)

b_bar == <<98, 97, 114>>  \* b"bar", the hash-tag of {bar}vaz and a{bar}

\* C3 as stated: a multi-key command (MSET included) whose keys all share one
\* hash-tag is routed as SingleNode(SpecificNode(route of the tag's slot)),
\* for any number of keys.
C3_Original ==
    (Routed /\ (IsMultiKey(cmd) \/ IsMset(cmd)) /\ AllKeysTagged(cmd, b_bar))
    => routing = Some(SingleNode(SpecificNode(Route(slot(b_bar), RoleOf(cmd)))))

\* C3 amended: as stated, except that an MSET whose last key has no value
\* gets no routing (None); it is never MultiNode.
C3_SharedTagSingleNode ==
    (Routed /\ (IsMultiKey(cmd) \/ IsMset(cmd)) /\ AllKeysTagged(cmd, b_bar))
    => IF HasDanglingKey(cmd) THEN routing = None
       ELSE routing
            = Some(SingleNode(SpecificNode(Route(slot(b_bar), RoleOf(cmd)))))

\* Three keys with the tag bar, routed to the one node of the tag's slot.
C3_Witness ==
    /\ IsMultiKey(cmd)
    /\ Len(cmd.args) = 4
    /\ AllKeysTagged(cmd, b_bar)
    /\ cmd.args[2] # cmd.args[3]
    /\ Routed
    /\ routing.some
    /\ routing.v.t = "SingleNode"

----------------------------------------------------------------------------
(* C4 *)

\* The command without its last argument.
WithoutLast(c) == CmdShape(SubSeq(c.args, 1, Len(c.args) - 1))

\* C4 as stated: an MSET whose last key has no value is routed as the
\* complete pairs before the dangling key are.
C4_Original ==
    (Routed /\ HasDanglingKey(cmd))
    => routing \in for_routable(WithoutLast(cmd))

\* C4 amended: an MSET whose last key has no value gets no routing:
\* for_routable returns None, whatever the complete pairs before it.
C4_DanglingKeyNoRouting ==
    (Routed /\ HasDanglingKey(cmd)) => routing = None

\* A complete pair in one slot followed by a dangling key of another.
C4_Witness ==
    /\ cmd.args = <<b_MSET, a_foo, a_v, a_baz>>
    /\ Routed

----------------------------------------------------------------------------
(* C5 *)

IsEval(c) == Len(c.args) >= 1 /\ c.args[1] \in {a_EVAL, a_EVALSHA}

\* The key-count arguments that are decimal numerals, by value.
ZeroCounts == {a_0, a_00, a_plus0}
PositiveCounts == {a_1, a_2, a_01}

\* Argument 2 is absent, or is no non-negative decimal numeral.
NoKeyCount(c) ==
    Len(c.args) < 3 \/ c.args[3] \notin (ZeroCounts \cup PositiveCounts)

\* C5 as stated: EVAL / EVALSHA whose key-count argument is absent, malformed
\* or unparsable is routed to a single random node.
C5_Original ==
    (Routed /\ IsEval(cmd) /\ NoKeyCount(cmd))
    => routing = Some(SingleNode(Random))

\* C5 amended: EVAL / EVALSHA whose key-count argument is absent, malformed
\* or unparsable gets no routing: for_routable returns None.
C5_NoKeyCountNoRouting ==
    (Routed /\ IsEval(cmd) /\ NoKeyCount(cmd)) => routing = None

\* A key-count that is no numeral, with a key behind it.
C5_Witness ==
    /\ cmd.args = <<a_EVAL, a_script, a_minus1, a_foo>>
    /\ Routed

----------------------------------------------------------------------------
(* C6 *)

HasKeyCount(c, counts) == Len(c.args) >= 3 /\ c.args[3] \in counts

\* C6 as stated: EVAL / EVALSHA with a key-count of 0 goes to a random node;
\* with a key-count above 0 it goes to the node of the slot of argument 3.
C6_Original ==
    (Routed /\ IsEval(cmd))
    => /\ HasKeyCount(cmd, ZeroCounts) => routing = Some(SingleNode(Random))
       /\ HasKeyCount(cmd, PositiveCounts)
          => /\ Len(cmd.args) >= 4
             /\ routing = Some(SingleNode(SpecificNode(
                            Route(get_slot(KeyAt(cmd, 3)), RoleOf(cmd)))))

\* C6 amended: with a key-count of 0 the command goes to a random node
\* whatever follows; with a key-count above 0 it goes to the node of the slot
\* of argument 3 when there is an argument 3, and gets no routing (None) when
\* there is none.
C6_EvalByKeyCount ==
    (Routed /\ IsEval(cmd))
    => /\ HasKeyCount(cmd, ZeroCounts) => routing = Some(SingleNode(Random))
       /\ HasKeyCount(cmd, PositiveCounts)
          => IF Len(cmd.args) >= 4
             THEN routing = Some(SingleNode(SpecificNode(
                              Route(get_slot(KeyAt(cmd, 3)), RoleOf(cmd)))))
             ELSE routing = None

\* A key-count of two with its two keys, routed by the first of them.
C6_Witness ==
    /\ cmd.args = <<a_EVALSHA, a_script, a_2, a_baz, a_foo>>
    /\ Routed
    /\ routing.some

----------------------------------------------------------------------------
(* C7 *)

IsStreamRead(c) ==
    Len(c.args) >= 1 /\ c.args[1] \in {a_XREAD, a_XREADGROUP}

RECURSIVE SkipStreamOptions(_, _)
\* The 0-based place of the first argument behind the COUNT n / BLOCK ms
\* options that start at place i.
SkipStreamOptions(c, i) ==
    IF i + 1 < Len(c.args) /\ c.args[i + 1] \in {a_COUNT, a_BLOCK}
    THEN SkipStreamOptions(c, i + 2)
    ELSE i

\* The place where the grammar of the command puts the STREAMS keyword:
\* XREAD [COUNT n] [BLOCK ms] STREAMS ..., and
\* XREADGROUP GROUP group consumer [COUNT n] [BLOCK ms] STREAMS ...
StreamsKeywordPlace(c) ==
    SkipStreamOptions(c, IF c.args[1] = a_XREADGROUP THEN 4 ELSE 1)

\* The command has its STREAMS keyword and at least one stream name.
HasStreamList(c) ==
    /\ IsStreamRead(c)
    /\ StreamsKeywordPlace(c) + 1 < Len(c.args)
    /\ KeyAt(c, StreamsKeywordPlace(c)) = b_STREAMS

\* C7: every XREAD / XREADGROUP, whatever its options, group name and
\* consumer name, is routed by the first stream name: the argument right
\* behind the STREAMS keyword that starts the stream-name list.
C7_RoutedByFirstStreamName ==
    (Routed /\ HasStreamList(cmd))
    => routing = Some(SingleNode(SpecificNode(
                    Route(get_slot(KeyAt(cmd, StreamsKeywordPlace(cmd) + 1)),
                          RoleOf(cmd)))))

----------------------------------------------------------------------------
(* C8 *)

----------------------------------------------------------------------------
(* C9 *)

\* C9: two commands that differ only in the letter case of the verb, of a
\* container verb's subcommand or of the STREAMS keyword get equal routing
\* (a split plan compared as a map from route to index list).
C9_CaseInvariant ==
    (otherKind = "recased" /\ routingO # Unset) => SameRouting(routingO, routing)

----------------------------------------------------------------------------
(* C10 *)

\* C10: SCAN, CLIENT SETNAME, SHUTDOWN, SLAVEOF, REPLICAOF, MOVE and BITOP
\* get no routing (None) for every argument list, in any letter case.
C10_NoRouting ==
    cmd.args \in NoRouteInputs
    => /\ Routed => routing = None
       /\ (otherKind \in {"parsed", "recased"} /\ routingO # Unset)
            => routingO = None

\* MOVE with a key and a database, which gets no routing.
C10_Witness ==
    /\ cmd.args = <<a_MOVE, a_foo, a_0>>
    /\ routing = None

----------------------------------------------------------------------------
(* C11 *)

\* The names some arm of the routing decision table matches.
RoutingTableNames ==
    AllMastersCmds \cup AllNodesCmds \cup MultiKeyCmds \cup {b_MSET}
    \cup NoRouteCmds \cup EvalCmds \cup StreamGroupCmds \cup StreamReadCmds

\* The routable has a name, and no arm of the table matches it.
InNoTable(r) == command(r).some /\ command(r).v \notin RoutingTableNames

\* The number of arguments of a routable, the verb included.
ArgCount(r) ==
    IF r.shape = "Cmd" THEN Len(r.args)
    ELSE IF r.v.t = "Bulk" THEN Len(r.v.items) ELSE 0

\* The bytes of argument i (0 is the verb) of a routable that has one there.
ArgBytes(r, i) ==
    IF r.shape = "Cmd" THEN r.args[i + 1] ELSE r.v.items[i + 1].data

\* A command of no table is routed by argument 1 to the node of its slot,
\* Replica for a read-only command and Master otherwise, and to a random node
\* when it is the verb alone.
DefaultRouting(r, o) ==
    InNoTable(r)
    => IF ArgCount(r) >= 2
       THEN o = Some(SingleNode(SpecificNode(
                     Route(get_slot(ArgBytes(r, 1)), RoleOf(r)))))
       ELSE o = Some(SingleNode(Random))

----------------------------------------------------------------------------
(* Hashing: two keys are handed to get_hashtag and to get_slot *)

\* The longest key made of the bytes '{', '}' and 'a'.
MaxKeyLen == 4

BraceBytes == {123, 125, 97}

\* The keys of test_get_hashtag.
k_foo_bar_baz == <<102, 111, 111, 123, 98, 97, 114, 125, 98, 97, 122>>  \* b"foo{bar}baz"
k_foo_empty_baz == <<102, 111, 111, 123, 125, 123, 98, 97, 122, 125>>  \* b"foo{}{baz}"
k_foo_nested_zap ==
    <<102, 111, 111, 123, 123, 98, 97, 114, 125, 125, 122, 97, 112>>  \* b"foo{{bar}}zap"
t_nested == <<123, 98, 97, 114>>  \* b"{bar"

HashKeys ==
    SeqsUpTo(BraceBytes, MaxKeyLen)
    \cup {k_foo_bar_baz, k_foo_empty_baz, k_foo_nested_zap, a_bar_vaz, a_a_bar}

InitHash ==
    /\ keyPair \in HashKeys \X HashKeys
    /\ tagPair = Unset
    /\ slotPair = Unset
    /\ RouterIdle /\ AggIdle /\ MapIdle

\* get_hashtag(key) for both keys
GetHashtag ==
    /\ keyPair # Unset
    /\ tagPair = Unset
    /\ tagPair' = <<get_hashtag(keyPair[1]), get_hashtag(keyPair[2])>>
    /\ UNCHANGED <<keyPair, slotPair>>
    /\ UNCHANGED <<routerVars, aggVars, mapVars>>

\* get_slot(key) for both keys
GetSlot ==
    /\ keyPair # Unset
    /\ slotPair = Unset
    /\ slotPair' = <<get_slot(keyPair[1]), get_slot(keyPair[2])>>
    /\ UNCHANGED <<keyPair, tagPair>>
    /\ UNCHANGED <<routerVars, aggVars, mapVars>>

NextHash ==
    \/ GetHashtag
    \/ GetSlot

SpecHash == InitHash /\ [][NextHash]_vars

\* The least member of a non-empty set of integers.
Least(S) == CHOOSE x \in S : \A y \in S : x <= y

\* The hash-tag of a key as the key's bytes define it: with i the place of
\* the first '{' and j the place of the first '}' behind i, the bytes strictly
\* between i and j when there are such i and j and j > i + 1.
HashTagOf(key) ==
    LET opens == { i \in 1..Len(key) : key[i] = 123 } IN
    IF opens = {} THEN None
    ELSE LET closes == { j \in 1..Len(key) : j > Least(opens) /\ key[j] = 125 }
         IN IF closes = {} THEN None
            ELSE IF Least(closes) = Least(opens) + 1 THEN None
            ELSE Some([n \in 1..(Least(closes) - Least(opens) - 1) |->
                         key[Least(opens) + n]])

----------------------------------------------------------------------------
(* C12 *)

\* C12: two keys with one identical (non-empty) hash-tag have one slot,
\* whatever bytes stand before the tag's '{' and behind its '}'.
C12_SharedTagSharedSlot ==
    (slotPair # Unset /\ HashTagOf(keyPair[1]).some
       /\ HashTagOf(keyPair[1]) = HashTagOf(keyPair[2]))
    => slotPair[1] = slotPair[2]

\* {bar}vaz and foo{bar}baz: one tag, different bytes around it, one slot.
C12_Witness ==
    /\ keyPair = <<a_bar_vaz, k_foo_bar_baz>>
    /\ slotPair # Unset
    /\ slotPair = <<5061, 5061>>

----------------------------------------------------------------------------
(* C13 *)

\* C13: get_hashtag returns the bytes strictly between the first '{' of the
\* key and the first '}' at or after it, and no tag when there is no '{',
\* when no '}' follows the first '{', or when those bytes are empty.  An empty
\* first tag is not skipped ("foo{}{baz}" has no tag) and an inner '{' is
\* tag content ("foo{{bar}}zap" has the tag "{bar").
C13_HashTag ==
    tagPair # Unset
    => \A i \in 1..2 :
          /\ tagPair[i] = HashTagOf(keyPair[i])
          /\ keyPair[i] = k_foo_empty_baz => tagPair[i] = None
          /\ keyPair[i] = k_foo_nested_zap => tagPair[i] = Some(t_nested)

\* The two keys of the claim, with their tags.
C13_Witness ==
    /\ keyPair = <<k_foo_empty_baz, k_foo_nested_zap>>
    /\ tagPair # Unset
    /\ tagPair = <<None, Some(t_nested)>>

----------------------------------------------------------------------------
(* The slot map *)

\* Slot::new
Slot(s, e, m, r) == [start |-> s, end |-> e, master |-> m, replicas |-> r]

\* Mutant of SlotAddrs_new: without a replica the Replica position is empty.
SlotAddrs_new_blank(master_node, replica_node) ==
    <<master_node, IF replica_node.some THEN replica_node.v ELSE "">>

\* SlotAddrs::new: the array [master, replica], the replica being the master
\* when there is none.
SlotAddrs_new(master_node, replica_node) ==
    <<master_node, IF replica_node.some THEN replica_node.v ELSE master_node>>

\* SlotAddrs::slot_addr
slot_addr(addrs, role) == IF role = "Master" THEN addrs[1] ELSE addrs[2]

\* SlotAddrs::from_slot: the set of values the call may return, one for each
\* replica that choose(&mut thread_rng()) may pick.
SlotAddrs_from_slot(s, read_from_replicas) ==
    IF ~read_from_replicas \/ s.replicas = <<>>
    THEN { SlotAddrs_new(s.master, None) }
    ELSE { SlotAddrs_new(s.master, Some(s.replicas[i])) :
             i \in 1..Len(s.replicas) }

\* BTreeMap::new
BTreeNew == <<>>

\* BTreeMap::insert: the entry of the key is added or replaced.
BTreeInsert(btree, k, v) ==
    [x \in DOMAIN btree \cup {k} |-> IF x = k THEN v ELSE btree[x]]

RECURSIVE InsertSlots(_, _, _, _)
\* The slots from place i on are inserted one after another under their end
\* boundary: the set of maps that may result.
InsertSlots(btree, slice, read_from_replicas, i) ==
    IF i > Len(slice) THEN {btree}
    ELSE UNION { InsertSlots(BTreeInsert(btree, slice[i].end, addrs),
                             slice, read_from_replicas, i + 1) :
                   addrs \in SlotAddrs_from_slot(slice[i], read_from_replicas) }

\* SlotMap::from_slots: collect() into a new BTreeMap, a later slot replacing
\* an earlier one of the same end.
from_slots(slice, read_from_replicas) ==
    InsertSlots(BTreeNew, slice, read_from_replicas, 1)

\* Mutant of fill_slots: the map is built anew from the slots given.
fill_slots_anew(btree, slice, read_from_replicas) ==
    InsertSlots(BTreeNew, slice, read_from_replicas, 1)

\* SlotMap::fill_slots
fill_slots(btree, slice, read_from_replicas) ==
    InsertSlots(btree, slice, read_from_replicas, 1)

\* Mutant of slot_addr_for_route: the entry of the greatest end boundary at
\* or above the slot answers.
slot_addr_for_route_last(btree, route) ==
    LET range == { e \in DOMAIN btree : e >= route.slot } IN
    IF range = {} THEN None
    ELSE Some(slot_addr(btree[CHOOSE e \in range : \A x \in range : x <= e],
                        route.slot_addr))

\* SlotMap::slot_addr_for_route: range(route.slot()..).next() is the entry of
\* the least key that is at least the slot.
slot_addr_for_route(btree, route) ==
    LET range == { e \in DOMAIN btree : e >= route.slot } IN
    IF range = {} THEN None
    ELSE Some(slot_addr(btree[CHOOSE e \in range : \A x \in range : e <= x],
                        route.slot_addr))

\* SlotMap::clear
clear(btree) == BTreeNew

\* Mutant of all_unique_addresses: the replicas are inserted whatever
\* only_primaries says.
all_unique_addresses_every_replica(btree, only_primaries) ==
    { slot_addr(btree[e], "Master") : e \in DOMAIN btree }
    \cup { slot_addr(btree[e], "Replica") : e \in DOMAIN btree }

\* SlotMap::all_unique_addresses: the HashSet of the addresses.
all_unique_addresses(btree, only_primaries) ==
    { slot_addr(btree[e], "Master") : e \in DOMAIN btree }
    \cup (IF only_primaries THEN {}
          ELSE { slot_addr(btree[e], "Replica") : e \in DOMAIN btree })

\* HashSet::into_iter().collect(): the members in an order the hasher picks.
SetIntoIterCollect(S) ==
    LET n == Cardinality(S) IN
    { q \in [1..n -> S] : \A i, j \in 1..n : i # j => q[i] # q[j] }

RECURSIVE FlatMapRoutes(_, _, _)
\* routes.iter().flat_map(|(route, _)| self.slot_addr_for_route(route)): the
\* addresses of the routes that have one, in the order of the routes.
FlatMapRoutes(btree, routes, i) ==
    IF i > Len(routes) THEN <<>>
    ELSE LET addr == slot_addr_for_route(btree, routes[i][1]) IN
         (IF addr.some THEN <<addr.v>> ELSE <<>>)
         \o FlatMapRoutes(btree, routes, i + 1)

RECURSIVE TakeWhileRoutes(_, _, _)
\* The addresses of the routes before the first one that has none.
TakeWhileRoutes(btree, routes, i) ==
    IF i > Len(routes) THEN <<>>
    ELSE LET addr == slot_addr_for_route(btree, routes[i][1]) IN
         IF addr.some THEN <<addr.v>> \o TakeWhileRoutes(btree, routes, i + 1)
         ELSE <<>>

\* Mutant of addresses_for_multi_routing: a route that has no address ends
\* the list.
addresses_for_multi_routing_take_while(btree, info) ==
    IF info.t = "AllNodes"
    THEN SetIntoIterCollect(all_unique_addresses(btree, FALSE))
    ELSE IF info.t = "AllMasters"
    THEN SetIntoIterCollect(all_unique_addresses(btree, TRUE))
    ELSE { TakeWhileRoutes(btree, info.routes, 1) }

\* SlotMap::addresses_for_multi_routing: the set of Vecs the call may return.
addresses_for_multi_routing(btree, info) ==
    IF info.t = "AllNodes"
    THEN SetIntoIterCollect(all_unique_addresses(btree, FALSE))
    ELSE IF info.t = "AllMasters"
    THEN SetIntoIterCollect(all_unique_addresses(btree, TRUE))
    ELSE { FlatMapRoutes(btree, info.routes, 1) }

\* The most slots of one from_slots / fill_slots call, and the most routes of
\* a split plan handed to addresses_for_multi_routing.
MaxSlots == 2
MaxRoutes == 2

\* The two slots of test_slot_map; a slot of the second range with another
\* primary and no replica; a slot of the first range with two replicas; a
\* slot of the second range served by the primary of the first.
SlotPool ==
    { Slot(1, 1000, "node1:6379", <<"replica1:6379">>),
      Slot(1001, 2000, "node2:6379", <<"replica2:6379">>),
      Slot(1001, 2000, "node3:6379", <<>>),
      Slot(0, 1000, "node1:6379", <<"replica1:6379", "replica3:6379">>),
      Slot(1001, 2000, "node1:6379", <<"replica2:6379">>) }

\* The slices of up to MaxSlots slots, no slot given twice in one slice.
SlotSlices ==
    { q \in SeqsUpTo(SlotPool, MaxSlots) :
        \A i, j \in 1..Len(q) : i # j => q[i] # q[j] }

\* The end boundaries of the slots of a slice.
EndsOf(slice) == { slice[i].end : i \in 1..Len(slice) }

\* The routes looked up: the slots at and around the boundaries.
RoutePool ==
    { Route(s, a) : s \in {0, 1000, 1001, 2000, 2001, SLOT_SIZE - 1},
                    a \in {"Master", "Replica"} }

\* The routes of the split plans.
PlanRoutePool ==
    { Route(500, "Master"), Route(1000, "Replica"), Route(1500, "Master") }

\* Split plans: each route with the index list of one key.
PlanPool ==
    { [i \in 1..Len(rs) |-> <<rs[i], <<i>>>>] :
        rs \in SeqsUpTo(PlanRoutePool, MaxRoutes) }

MultiRoutingPool ==
    {AllNodes, AllMasters} \cup { MultiSlot(plan) : plan \in PlanPool }

RECURSIVE RecordSlots(_, _, _, _)
\* The Slot, and the replica-read flag, last inserted under each end boundary.
RecordSlots(ins, slice, read_from_replicas, i) ==
    IF i > Len(slice) THEN ins
    ELSE RecordSlots(
           BTreeInsert(ins, slice[i].end,
                       [slot |-> slice[i],
                        read_from_replicas |-> read_from_replicas]),
           slice, read_from_replicas, i + 1)

\* SlotMap::new()
InitSlotMap ==
    /\ slot_map = BTreeNew
    /\ inserted = <<>>
    /\ lastOp = [op |-> "new"]
    /\ looked = Unset
    /\ addresses = Unset
    /\ RouterIdle /\ HashIdle /\ AggIdle

\* slot_map = SlotMap::from_slots(&slots, read_from_replicas)
FromSlots ==
    /\ \E slice \in SlotSlices, read_from_replicas \in BOOLEAN :
          /\ slot_map' \in from_slots(slice, read_from_replicas)
          /\ inserted' = RecordSlots(<<>>, slice, read_from_replicas, 1)
          /\ lastOp' = [op |-> "from_slots", ends |-> EndsOf(slice)]
    /\ looked' = Unset
    /\ addresses' = Unset
    /\ UNCHANGED <<routerVars, hashVars, aggVars>>

\* slot_map.fill_slots(&slots, read_from_replicas)
FillSlots ==
    /\ \E slice \in SlotSlices, read_from_replicas \in BOOLEAN :
          /\ slot_map' \in fill_slots(slot_map, slice, read_from_replicas)
          /\ inserted' = RecordSlots(inserted, slice, read_from_replicas, 1)
          /\ lastOp' = [op |-> "fill_slots", ends |-> EndsOf(slice)]
    /\ looked' = Unset
    /\ addresses' = Unset
    /\ UNCHANGED <<routerVars, hashVars, aggVars>>

\* slot_map.clear()
Clear ==
    /\ slot_map' = clear(slot_map)
    /\ inserted' = <<>>
    /\ lastOp' = [op |-> "clear"]
    /\ looked' = Unset
    /\ addresses' = Unset
    /\ UNCHANGED <<routerVars, hashVars, aggVars>>

\* slot_map.slot_addr_for_route(&route)
Lookup ==
    /\ \E route \in RoutePool :
          looked' = [route |-> route,
                     addr |-> slot_addr_for_route(slot_map, route)]
    /\ addresses' = Unset
    /\ UNCHANGED <<slot_map, inserted, lastOp>>
    /\ UNCHANGED <<routerVars, hashVars, aggVars>>

\* slot_map.addresses_for_multi_routing(&routing)
MultiRouting ==
    /\ \E info \in MultiRoutingPool :
          \E out \in addresses_for_multi_routing(slot_map, info) :
             addresses' = [routing |-> info, out |-> out]
    /\ looked' = Unset
    /\ UNCHANGED <<slot_map, inserted, lastOp>>
    /\ UNCHANGED <<routerVars, hashVars, aggVars>>

NextSlotMap ==
    \/ FromSlots
    \/ FillSlots
    \/ Clear
    \/ Lookup
    \/ MultiRouting

SpecSlotMap == InitSlotMap /\ [][NextSlotMap]_vars

----------------------------------------------------------------------------
(* C14 *)

\* The address an entry of the map holds for a role.
AddrOfEntry(e, role) ==
    IF role = "Master" THEN slot_map[e][1] ELSE slot_map[e][2]

\* C14: slot_addr_for_route(route) returns the address, for the route's role,
\* of the entry whose end boundary is the smallest one >= route.slot, and
\* None exactly when route.slot is greater than every end boundary of the map
\* (the empty map included).
C14_LookupBySmallestEnd ==
    looked # Unset
    => /\ (looked.addr = None)
          <=> (\A e \in DOMAIN slot_map : looked.route.slot > e)
       /\ \A e \in DOMAIN slot_map :
             (/\ e >= looked.route.slot
              /\ \A x \in DOMAIN slot_map : x >= looked.route.slot => e <= x)
             => looked.addr = Some(AddrOfEntry(e, looked.route.slot_addr))

\* Slot 1001 of the two ranges of test_slot_map: the entry of end 2000, not
\* the one of end 1000, answers.
C14_Witness ==
    /\ looked # Unset
    /\ DOMAIN slot_map = {1000, 2000}
    /\ looked.route = Route(1001, "Master")
    /\ looked.addr = Some("node2:6379")
    /\ slot_map[1000][1] = "node1:6379"

----------------------------------------------------------------------------
(* C18 *)

\* One entry for each end boundary inserted since construction or the last
\* clear, bound to the addresses of the Slot inserted last with that end; and
\* an empty map after clear, where every lookup returns None.
HoldsLastInserted ==
    /\ DOMAIN slot_map = DOMAIN inserted
    /\ \A e \in DOMAIN slot_map :
          /\ slot_map[e][1] = inserted[e].slot.master
          /\ slot_map[e][2] \in
                {inserted[e].slot.master}
                \cup { inserted[e].slot.replicas[i] :
                         i \in 1..Len(inserted[e].slot.replicas) }
    /\ lastOp.op = "clear" => DOMAIN slot_map = {}
    /\ (DOMAIN slot_map = {} /\ looked # Unset) => looked.addr = None

\* A fill_slots step removes no boundary, adds exactly the boundaries of its
\* input and leaves the entry of every other boundary as it was.
FillSlotsKeepsOthers ==
    lastOp'.op = "fill_slots"
    => /\ DOMAIN slot_map' = DOMAIN slot_map \cup lastOp'.ends
       /\ \A e \in DOMAIN slot_map \ lastOp'.ends : slot_map'[e] = slot_map[e]

\* C18: after any sequence of from_slots, fill_slots and clear the map holds
\* exactly one entry per distinct end boundary inserted since construction or
\* the last clear, bound to the addresses of the Slot most recently inserted
\* with that end; fill_slots changes only the entries whose end boundary
\* occurs in its input and never removes a boundary; after clear the map is
\* empty and every lookup returns None.
C18_UpsertByEnd == []HoldsLastInserted /\ [][FillSlotsKeepsOthers]_vars

\* fill_slots has replaced the entry of end 2000 by the slot of another
\* primary, beside the entry of end 1000.
C18_Witness ==
    /\ lastOp.op = "fill_slots"
    /\ lastOp.ends = {2000}
    /\ DOMAIN slot_map = {1000, 2000}
    /\ slot_map[1000] = <<"node1:6379", "replica1:6379">>
    /\ slot_map[2000] = <<"node3:6379", "node3:6379">>

----------------------------------------------------------------------------
(* C19 *)

\* The entry of every end boundary holds the primary of the slot it was built
\* from in the Master position; in the Replica position it holds that primary
\* when the slot has no replicas or replica reads were disabled, and a member
\* of the slot's replica list otherwise.
MasterAndChosenReplica ==
    \A e \in DOMAIN slot_map :
       /\ slot_map[e][1] = inserted[e].slot.master
       /\ IF Len(inserted[e].slot.replicas) = 0
             \/ ~inserted[e].read_from_replicas
          THEN slot_map[e][2] = inserted[e].slot.master
          ELSE \E i \in 1..Len(inserted[e].slot.replicas) :
                  slot_map[e][2] = inserted[e].slot.replicas[i]

\* A lookup of the route looked up before, against the unchanged map, returns
\* the address returned before.
RepeatedLookupSame ==
    (/\ looked # Unset
     /\ looked' # Unset
     /\ looked'.route = looked.route
     /\ slot_map' = slot_map)
    => looked'.addr = looked.addr

\* C19: every SlotAddrs built from a Slot holds the slot's primary in the
\* Master position; the Replica position holds the primary's own address when
\* the slot has no replicas or replica reads are disabled, and otherwise one
\* member of the replica list, chosen when the entry is built, so that
\* repeated lookups of one route against an unchanged map return one address.
C19_ReplicaChosenAtBuild ==
    []MasterAndChosenReplica /\ [][RepeatedLookupSame]_vars

\* The second of two replicas was chosen, and a lookup returns it.
C19_Witness ==
    /\ looked # Unset
    /\ DOMAIN slot_map = {1000}
    /\ Len(inserted[1000].slot.replicas) = 2
    /\ looked.route = Route(1000, "Replica")
    /\ looked.addr = Some("replica3:6379")

----------------------------------------------------------------------------
(* C20 *)

\* The places of the plan whose route the map resolves.
Resolved(plan) ==
    { i \in 1..Len(plan) : slot_addr_for_route(slot_map, plan[i][1]).some }

\* C20: for a MultiSlot plan addresses_for_multi_routing returns, in plan
\* order, slot_addr_for_route(route) of exactly the routes the map resolves:
\* one entry per resolvable route, duplicates kept; its length equals the
\* plan's length if and only if every route resolves, and a route without an
\* address is dropped without error.
C20_MultiSlotAddresses ==
    (addresses # Unset /\ addresses.routing.t = "MultiSlot")
    => LET plan == addresses.routing.routes
           R == Resolved(plan)
       IN /\ Len(addresses.out) = Cardinality(R)
          /\ \A i \in R :
                addresses.out[Cardinality({ j \in R : j <= i })]
                  = slot_addr_for_route(slot_map, plan[i][1]).v
          /\ (Len(addresses.out) = Len(plan)) <=> (R = 1..Len(plan))

\* The first route of the plan has no address (the map ends at 1000) and is
\* dropped; the second one is kept.
C20_Witness ==
    /\ addresses # Unset
    /\ DOMAIN slot_map = {1000}
    /\ addresses.routing
         = MultiSlot(<<<<Route(1500, "Master"), <<1>>>>,
                       <<Route(500, "Master"), <<2>>>>>>)
    /\ addresses.out = <<"node1:6379">>

----------------------------------------------------------------------------
(* C21 *)

\* The members of a list, and whether no member occurs twice.
Members(q) == { q[i] : i \in 1..Len(q) }
NoDuplicates(q) == \A i, j \in 1..Len(q) : i # j => q[i] # q[j]

\* The primary addresses of the entries of the map, and the addresses their
\* Replica positions hold.
Primaries == { slot_map[e][1] : e \in DOMAIN slot_map }
ResolvedReplicas == { slot_map[e][2] : e \in DOMAIN slot_map }

\* Every entry of the map was built with replica reads disabled.
BuiltWithoutReplicaReads ==
    \A e \in DOMAIN inserted : ~inserted[e].read_from_replicas

\* The AllMasters result lists each primary once and nothing else; the
\* AllNodes result lists each primary and each resolved replica once and
\* nothing else.
AllResultIsTheSet ==
    addresses # Unset
    => /\ addresses.routing.t = "AllMasters"
          => /\ NoDuplicates(addresses.out)
             /\ Members(addresses.out) = Primaries
       /\ addresses.routing.t = "AllNodes"
          => /\ NoDuplicates(addresses.out)
             /\ Members(addresses.out) = Primaries \cup ResolvedReplicas

\* Of two calls in a row against one map, one for AllMasters and one for
\* AllNodes, the first result lies within the second, and they have the same
\* members when replica reads were disabled.
MastersWithinNodes ==
    (/\ addresses # Unset
     /\ addresses' # Unset
     /\ slot_map' = slot_map
     /\ {addresses.routing.t, addresses'.routing.t}
          = {"AllMasters", "AllNodes"})
    => LET masters == IF addresses.routing.t = "AllMasters"
                      THEN addresses.out ELSE addresses'.out
           nodes == IF addresses.routing.t = "AllNodes"
                    THEN addresses.out ELSE addresses'.out
       IN /\ Members(masters) \subseteq Members(nodes)
          /\ BuiltWithoutReplicaReads => Members(masters) = Members(nodes)

\* C21: addresses_for_multi_routing returns, without duplicates, for
\* AllMasters exactly the set of primary addresses of all map entries, and
\* for AllNodes exactly the union of the primary and the resolved replica
\* address of all map entries; hence the AllMasters result is always a
\* subset of the AllNodes result, and the two are equal when the map was
\* built with replica reads disabled.
C21_AllMastersAllNodes == []AllResultIsTheSet /\ [][MastersWithinNodes]_vars

\* Two entries served by one primary, each with a replica of its own: the
\* AllMasters result names that primary once.
C21_Witness ==
    /\ addresses # Unset
    /\ addresses.routing.t = "AllMasters"
    /\ DOMAIN slot_map = {1000, 2000}
    /\ slot_map[1000] = <<"node1:6379", "replica1:6379">>
    /\ slot_map[2000] = <<"node1:6379", "replica2:6379">>
    /\ addresses.out = <<"node1:6379">>

----------------------------------------------------------------------------
(* Aggregation: partial responses are handed to an aggregation function *)

\* The most partial responses of one call, and the longest partial array.
MaxPartials == 3
MaxLen == 2

IntPool == { I64FromInt(n) : n \in {-1, 0, 1, 2, 3} } \cup {I64_MAX, I64_MIN}

\* Partial responses of a numeric aggregate: integers, and three values that
\* are no integer.
ScalarPool ==
    { ValueInt(n) : n \in IntPool }
    \cup {ValueNil, ValueData(a_foo), ValueBulk(<<>>)}

IntArray(q) == ValueBulk([j \in 1..Len(q) |-> ValueInt(I64FromInt(q[j]))])

\* Partial responses of the logical aggregate: the arrays of 0 and 1 of up to
\* MaxLen elements, an array with a negative element, one with an element
\* above 1, one with an element that is no integer, and a value that is no
\* array.
ArrayPool ==
    { IntArray(q) : q \in SeqsUpTo({0, 1}, MaxLen) }
    \cup {IntArray(<<-1>>), IntArray(<<1, 2>>),
          ValueBulk(<<ValueData(a_foo)>>), ValueNil}

\* Partial responses of a split command, and the index lists of its routes.
ReplyPool ==
    {ValueBulk(<<>>), ValueBulk(<<ValueData(a_foo)>>),
     ValueBulk(<<ValueData(a_foo), ValueData(a_baz)>>), ValueNil}

IndexListPool == {<<1>>, <<2>>, <<1, 2>>}

AllIn(list, pool) == \A i \in 1..Len(list) : list[i] \in pool

InitAggregate ==
    /\ \/ /\ aggValues \in SeqsUpTo(ScalarPool, MaxPartials)
                            \cup SeqsUpTo(ArrayPool, MaxPartials)
          /\ aggOrder = None
       \/ /\ aggValues \in SeqsUpTo(ReplyPool, MaxRoutes)
          /\ aggOrder \in { Some(o) : o \in SeqsUpTo(IndexListPool, MaxRoutes) }
    /\ aggregated = Unset
    /\ RouterIdle /\ HashIdle /\ MapIdle

\* aggregate(values, op)
Aggregate ==
    /\ aggregated = Unset
    /\ AllIn(aggValues, ScalarPool)
    /\ \E op \in {"Min", "Sum"}, overflow_checks \in BOOLEAN :
          aggregated' = [fn |-> "aggregate", op |-> op,
                         result |-> aggregate(aggValues, op, overflow_checks)]
    /\ UNCHANGED <<aggValues, aggOrder>>
    /\ UNCHANGED <<routerVars, hashVars, mapVars>>

\* logical_aggregate(values, LogicalAggregateOp::And)
LogicalAggregate ==
    /\ aggregated = Unset
    /\ AllIn(aggValues, ArrayPool)
    /\ aggregated' = [fn |-> "logical_aggregate", op |-> "And",
                      result |-> logical_aggregate(aggValues)]
    /\ UNCHANGED <<aggValues, aggOrder>>
    /\ UNCHANGED <<routerVars, hashVars, mapVars>>

\* combine_array_results(values)
CombineArrays ==
    /\ aggregated = Unset
    /\ aggregated' = [fn |-> "combine_array_results",
                      result |-> combine_array_results(aggValues)]
    /\ UNCHANGED <<aggValues, aggOrder>>
    /\ UNCHANGED <<routerVars, hashVars, mapVars>>

\* combine_and_sort_array_results(values, sorting_order)
CombineSorted ==
    /\ aggregated = Unset
    /\ aggOrder.some
    /\ aggregated' = [fn |-> "combine_and_sort_array_results",
                      result |-> combine_and_sort_array_results(aggValues,
                                                                aggOrder.v)]
    /\ UNCHANGED <<aggValues, aggOrder>>
    /\ UNCHANGED <<routerVars, hashVars, mapVars>>

NextAggregate ==
    \/ Aggregate
    \/ LogicalAggregate
    \/ CombineArrays
    \/ CombineSorted

SpecAggregate == InitAggregate /\ [][NextAggregate]_vars

Called(fn) == aggregated # Unset /\ aggregated.fn = fn

AllInts(list) == \A i \in 1..Len(list) : list[i].t = "Int"

\* An i64 as the same number of 80 bits.
SignExtend(x) == x \o <<IF IsNegative(x) THEN LimbBase - 1 ELSE 0>>

RECURSIVE ExactSum(_, _)
\* The arithmetic sum of the integers from place i on, in 80 bits: no sum of
\* fewer than 65536 numbers of 64 bits leaves them.
ExactSum(list, i) ==
    IF i > Len(list) THEN <<0, 0, 0, 0, 0>>
    ELSE AddLimbs(SignExtend(list[i].int), ExactSum(list, i + 1), 1, 0)

\* x > 0
Positive(x) == ~IsNegative(x) /\ x # I64Zero

----------------------------------------------------------------------------
(* C15 *)

\* C15: aggregate over integer partials returns Int of their arithmetic sum
\* for Sum (0 for the empty list) and Int of their minimum for Min, for every
\* list of 64-bit integers; when a partial at any place is no integer the
\* result is a TypeError.
C15_AggregateSumMin ==
    Called("aggregate")
    => IF ~AllInts(aggValues) THEN aggregated.result = ErrTypeError
       ELSE /\ aggregated.result.t = "Ok"
            /\ aggregated.result.v.t = "Int"
            /\ aggregated.op = "Sum"
                 => SignExtend(aggregated.result.v.int) = ExactSum(aggValues, 1)
            /\ (aggregated.op = "Min" /\ aggValues # <<>>)
                 => /\ \E i \in 1..Len(aggValues) :
                          aggregated.result.v.int = aggValues[i].int
                    /\ \A i \in 1..Len(aggValues) :
                          ~I64Less(aggValues[i].int, aggregated.result.v.int)

----------------------------------------------------------------------------
(* C16 *)

\* Every partial is an array of integers, and all have the length of the
\* first one.
IntArraysOfOneLength(list) ==
    /\ list # <<>>
    /\ \A i \in 1..Len(list) :
          /\ list[i].t = "Bulk"
          /\ AllInts(list[i].items)
          /\ Len(list[i].items) = Len(list[1].items)

\* C16: logical_aggregate(And) over partials that are all integer arrays of
\* one length L returns an array of length L whose element j is 1 when
\* element j of every partial is greater than zero and 0 otherwise, for any
\* number of partials and any L, L = 0 included.
C16_LogicalAnd ==
    (Called("logical_aggregate") /\ IntArraysOfOneLength(aggValues))
    => aggregated.result
       = Ok(ValueBulk([j \in 1..Len(aggValues[1].items) |->
               ValueInt(I64FromInt(
                 IF \A i \in 1..Len(aggValues) :
                       Positive(aggValues[i].items[j].int)
                 THEN 1 ELSE 0))]))

\* Three partials of two elements each; the second element of the last one
\* is 0.
C16_Witness ==
    /\ Called("logical_aggregate")
    /\ aggValues = <<IntArray(<<1, 1>>), IntArray(<<1, 2>>), IntArray(<<1, 0>>)>>
    /\ aggregated.result = Ok(IntArray(<<1, 0>>))

----------------------------------------------------------------------------
(* C17 *)

\* The partials are arrays of integers, not all of one length.
IntArraysOfUnequalLength(list) ==
    /\ \A i \in 1..Len(list) : list[i].t = "Bulk" /\ AllInts(list[i].items)
    /\ \E i, j \in 1..Len(list) : Len(list[i].items) # Len(list[j].items)

\* The partials are arrays, and either their number is not the number of
\* index lists or one of them has not the length of its index list.
PartialsMismatchOrder(list, order) ==
    /\ \A i \in 1..Len(list) : list[i].t = "Bulk"
    /\ \/ Len(list) # Len(order)
       \/ \E i \in 1..Len(list) : Len(list[i].items) # Len(order[i])

\* C17: a shape mismatch is reported as Err(TypeError), never as a crash or a
\* best-effort merge: logical_aggregate given partial arrays of different
\* lengths, and combine_and_sort_array_results given a partial whose length
\* differs from the length of its route's index list, or a number of partials
\* that is not the number of index lists.
C17_ShapeMismatchTypeError ==
    /\ (Called("logical_aggregate") /\ IntArraysOfUnequalLength(aggValues))
       => aggregated.result = ErrTypeError
    /\ (Called("combine_and_sort_array_results")
          /\ PartialsMismatchOrder(aggValues, aggOrder.v))
       => aggregated.result = ErrTypeError

----------------------------------------------------------------------------

----------------------------------------------------------------------------
(* Routing and response policy of one command *)

\* The most arguments that follow the name of a command.
MaxArgs == 2

\* Names that are in no table: key commands, the container verbs alone and
\* container verbs with a subcommand no table names.
UnlistedNames ==
    {a_GET, a_SET, a_ECHO} \cup ContainerVerbs
    \cup { verb \o <<32>> \o sub :
             verb \in {a_CONFIG, a_SCRIPT, a_CLIENT, a_OBJECT},
             sub \in {a_GET, a_KILL, a_ENCODING} }

\* Every name of the tables of for_routable and of response_policy, and the
\* names of no table.
NamePoolOfTables ==
    AllMastersCmds \cup AllNodesCmds \cup MultiKeyCmds \cup {b_MSET}
    \cup NoRouteCmds \cup EvalCmds \cup StreamGroupCmds \cup StreamReadCmds
    \cup {b_SCRIPT_EXISTS, b_WAIT, b_RANDOMKEY}
    \cup SumCmds \cup AllSucceededCmds \cup CombineArraysCmds
    \cup OneSucceededCmds \cup SpecialCmds
    \cup UnlistedNames

\* The verb and the subcommand of a name, as two arguments.
Words(name) ==
    LET p == BytePosition(name, 32, 1) IN
    IF p = 0 THEN <<name>>
    ELSE <<SubSeq(name, 1, p - 1), SubSeq(name, p + 1, Len(name))>>

\* The name as built by a caller: verb and subcommand as two arguments or as
\* one, in upper or in lower case.
FormsOf(name) ==
    { Words(name), <<name>>,
      [i \in 1..Len(Words(name)) |-> to_ascii_lowercase(Words(name)[i])] }

PolicyInputs ==
    { form \o args : form \in UNION { FormsOf(name) : name \in NamePoolOfTables },
                     args \in SeqsUpTo({a_foo, a_baz}, MaxArgs) }

InitPolicy ==
    /\ cmd \in { CmdShape(args) : args \in PolicyInputs }
    /\ routing = Unset
    /\ other = Unset
    /\ otherKind = "none"
    /\ routingO = Unset
    /\ partials = Unset
    /\ combined = Unset
    /\ policy = Unset
    /\ HashIdle /\ AggIdle /\ MapIdle

\* RoutingInfo::response_policy(&cmd)
ResponsePolicy ==
    /\ policy = Unset
    /\ policy' = response_policy(cmd)
    /\ UNCHANGED <<cmd, routing, other, otherKind, routingO, partials, combined>>
    /\ UNCHANGED <<hashVars, aggVars, mapVars>>

NextPolicy ==
    \/ RouteCmd
    \/ ResponsePolicy

SpecPolicy == InitPolicy /\ [][NextPolicy]_vars

----------------------------------------------------------------------------
(* C22 *)

IsMultiNode(o) == o # Unset /\ o.some /\ o.v.t = "MultiNode"

\* for_routable hands the command to multi_shard, and the routing is one
\* multi_shard returns for it.
ThroughSplitter(c, o) ==
    /\ command(c).some
    /\ command(c).v \in MultiKeyCmds \cup {b_MSET}
    /\ o \in multi_shard(c, command(c).v, 1, command(c).v = b_MSET)

\* C22: the routing table and the response-policy table agree: for every
\* command, if for_routable returns a MultiNode routing (AllMasters, AllNodes
\* or MultiSlot) then response_policy returns Some policy for that command,
\* and every command for which response_policy returns Some is one that
\* for_routable routes either to MultiNode or through the multi-key splitter.
C22_TablesAgree ==
    (routing # Unset /\ policy # Unset)
    => /\ IsMultiNode(routing) => policy.some
       /\ policy.some
          => (IsMultiNode(routing) \/ ThroughSplitter(cmd, routing))

\* script exists foo: routed to all primaries, the replies combined by a
\* logical AND.
C22_Witness ==
    /\ routing = Some(MultiNode(AllMasters))
    /\ policy = Some(AggregateLogical("And"))
    /\ command(cmd) = Some(b_SCRIPT_EXISTS)
    /\ Len(cmd.args) = 3
    /\ cmd.args[1] # to_ascii_uppercase(cmd.args[1])

----------------------------------------------------------------------------
(* C23 *)

\* A split plan with at least two routes, each with at least one index.
GenuineFanOut(plan) ==
    /\ Len(plan) >= 2
    /\ \A i \in 1..Len(plan) : Len(plan[i][2]) >= 1

\* C23: every MultiSlot plan returned by for_routable is a genuine fan-out:
\* it contains at least two routes and every route has a non-empty index
\* list, for every argument list of DEL, EXISTS, UNLINK, TOUCH, MGET and MSET,
\* including the verb alone with no key argument.
C23_GenuineFanOut ==
    /\ IsMultiSlot(routing) => GenuineFanOut(Plan(routing))
    /\ IsMultiSlot(routingO) => GenuineFanOut(Plan(routingO))

====
